---- MODULE Spec2Model ----
(***************************************************************************)
(* Model of linux/ptrace_utils.c (honggfuzz): the stop-event dispatcher    *)
(* arch_ptraceAnalyze, the signal save path arch_ptraceSaveData, the       *)
(* analyze-only path arch_ptraceAnalyzeData and the sanitizer-exit save    *)
(* path arch_ptraceExitSaveData, run by parallel workers that share the    *)
(* counters of honggfuzz_t and the work directory.                         *)
(*                                                                         *)
(* A handler is split into steps only at its accesses to state shared      *)
(* between workers (the __sync_* counters, the work directory); everything *)
(* a worker does on its own slot and its own tracee between two such       *)
(* accesses belongs to one step.                                           *)
(***************************************************************************)
EXTENDS Integers, Sequences, FiniteSets, TLC

(* ---------------------------------------------------------------- bounds *)
MaxWorkers == 2        \* number of parallel workers (slots)
MaxEvents == 2         \* wait statuses handled per worker
MaxTids == 2           \* threads of one tracee
MaxTime == 1           \* seconds of local time the run spans
HashBits == 4          \* width of the modelled stack hash (uint64_t in C)
DynBits == 3           \* width of the modelled dynFileIterExpire

(* ------------------------------------------------------- bit arithmetic *)
RECURSIVE Pow2(_)
Pow2(n) == IF n = 0 THEN 1 ELSE 2 * Pow2(n - 1)

RECURSIVE BitXor(_, _)
BitXor(a, b) ==
    IF a = 0 THEN b
    ELSE IF b = 0 THEN a
    ELSE (((a % 2) + (b % 2)) % 2) + 2 * BitXor(a \div 2, b \div 2)

\* an add whose result is lost
sync_fetch_and_add_Lost(v, n) == v

\* __sync_fetch_and_add(&v, n): one atomic step, the value v holds afterwards
sync_fetch_and_add(v, n) == v + n

\* a handler that counts the crash twice
CrashCounted_Twice(crashesCnt) == sync_fetch_and_add(crashesCnt, 2)

\* a handler that does not count the crash
CrashCounted_Not(crashesCnt) == crashesCnt

\* "Increase global crashes counter": hfuzz->crashesCnt after it
CrashCounted(crashesCnt) == sync_fetch_and_add(crashesCnt, 1)

\* an and that keeps its left operand
BitAnd_Left(a, b) == a

RECURSIVE BitAnd(_, _)
BitAnd(a, b) ==
    IF a = 0 \/ b = 0 THEN 0
    ELSE ((a % 2) * (b % 2)) + 2 * BitAnd(a \div 2, b \div 2)

\* an or that keeps its left operand
BitOr_Left(a, b) == a

RECURSIVE BitOr(_, _)
BitOr(a, b) ==
    IF a = 0 THEN b
    ELSE IF b = 0 THEN a
    ELSE (IF a % 2 = 1 \/ b % 2 = 1 THEN 1 ELSE 0) + 2 * BitOr(a \div 2, b \div 2)

(* ------------------------------------------------------------ constants *)
\* NMAJORFRAMES: frames that go into the stack hash by default
NMAJORFRAMES == 7
\* _HF_SINGLE_FRAME_MASK: the high bit of the stack hash
HF_SINGLE_FRAME_MASK == Pow2(HashBits - 1)
\* _HF_DYNFILE_SUB_MASK: everything but the two most significant bits
HF_DYNFILE_SUB_MASK == Pow2(DynBits - 2) - 1

HF_MSAN_EXIT_CODE == "HF_MSAN_EXIT_CODE"
HF_ASAN_EXIT_CODE == "HF_ASAN_EXIT_CODE"
HF_UBSAN_EXIT_CODE == "HF_UBSAN_EXIT_CODE"

\* the empty string of crashFileName / report
EmptyStr == <<>>

(* --------------------------------------------------------- signal table *)
\* arch_sigs[]: every entry is ("UNKNOWN", false) but the ones set below;
\* "0" is signal number 0, the si_signo of a zeroed siginfo_t
arch_sigs(signo, android) ==
    CASE signo = "SIGTRAP" -> [descr |-> "SIGTRAP", important |-> FALSE]
      [] signo = "SIGILL"  -> [descr |-> "SIGILL",  important |-> TRUE]
      [] signo = "SIGFPE"  -> [descr |-> "SIGFPE",  important |-> TRUE]
      [] signo = "SIGSEGV" -> [descr |-> "SIGSEGV", important |-> TRUE]
      [] signo = "SIGBUS"  -> [descr |-> "SIGBUS",  important |-> TRUE]
      [] signo = "SIGABRT" -> [descr |-> "SIGABRT", important |-> ~android]
      [] OTHER             -> [descr |-> "UNKNOWN", important |-> FALSE]

\* SI_FROMUSER(siptr): si_code <= 0
SI_FROMUSER(si) == si.si_code <= 0

\* arch_sanCodeToStr
arch_sanCodeToStr(exitCode) ==
    CASE exitCode = HF_MSAN_EXIT_CODE  -> "MSAN"
      [] exitCode = HF_ASAN_EXIT_CODE  -> "ASAN"
      [] exitCode = HF_UBSAN_EXIT_CODE -> "UBSAN"
      [] OTHER                         -> "UNKNW"

(* ------------------------------------------------- register formatting  *)
HexChars == <<"0", "1", "2", "3", "4", "5", "6", "7",
              "8", "9", "a", "b", "c", "d", "e", "f">>

\* ASCII codes of the characters of a formatted register
AsciiOf(c) ==
    CASE c = "0" -> 48 [] c = "1" -> 49 [] c = "2" -> 50 [] c = "3" -> 51
      [] c = "4" -> 52 [] c = "5" -> 53 [] c = "6" -> 54 [] c = "7" -> 55
      [] c = "8" -> 56 [] c = "9" -> 57 [] c = "a" -> 97 [] c = "b" -> 98
      [] c = "c" -> 99 [] c = "d" -> 100 [] c = "e" -> 101 [] c = "f" -> 102
      [] c = "x" -> 120

\* the w low hexadecimal digits of v, most significant first ("%0<w>x")
RECURSIVE HexDigits(_, _)
HexDigits(v, w) ==
    IF w = 0 THEN <<>>
    ELSE HexDigits(v \div 16, w - 1) \o <<HexChars[(v % 16) + 1]>>

\* sizeof(REG_TYPE) of the build: uint32_t or uint64_t
RegBytes(build) == IF build.bits64 THEN 8 ELSE 4

\* snprintf(pcStr, REGSIZEINCHAR, REG_PD REG_PM, reg): "0x%08x" / "0x%016lx"
RegStr(build, reg) == <<"0", "x">> \o HexDigits(reg, 2 * RegBytes(build))

\* &str[strlen(str) - 3]: the last three characters
Last3(str) == SubSeq(str, Len(str) - 2, Len(str))

\* util_hash(buf, 3): a deterministic non-cryptographic hash of three bytes
RECURSIVE util_hash(_)
util_hash(buf) ==
    IF buf = <<>> THEN 0
    ELSE (util_hash(SubSeq(buf, 1, Len(buf) - 1)) * 31 + AsciiOf(buf[Len(buf)]))
             % Pow2(HashBits)

(* ------------------------------------------------------- stack hashing  *)
\* a minimum that is its left operand
Min_Left(a, b) == a

Min(a, b) == IF a < b THEN a ELSE b

\* the loop of arch_hashCallstack over the first i frames
RECURSIVE HashFrames(_, _, _)
HashFrames(build, funcs, i) ==
    IF i = 0 THEN 0
    ELSE BitXor(HashFrames(build, funcs, i - 1),
                util_hash(Last3(RegStr(build, funcs[i].pc))))

\* arch_hashCallstack: the value stored into fuzzer->backtrace
arch_hashCallstack(build, numMajorFrames, funcs, funcCnt, enableMasking) ==
    LET hash == HashFrames(build, funcs, Min(funcCnt, numMajorFrames))
    IN  IF enableMasking /\ funcCnt = 1
        THEN BitOr(hash, HF_SINGLE_FRAME_MASK)
        ELSE hash

(* ------------------------------------------------------ tracee memory  *)
\* MAX_INSTR_SZ of the build
MAX_INSTR_SZ(build) ==
    IF build.cpu = "x86" THEN 16 ELSE IF build.bits64 THEN 8 ELSE 4

\* sizeof(long) of the build
SizeofLong(build) == IF build.bits64 THEN 8 ELSE 4

\* errno of the calling thread is modelled by whether it is non-zero. libc is
\* [errno0, clears]: errno0 is errno when arch_getProcMem is entered, clears
\* says whether the C library's ptrace() stores 0 into errno when a
\* PT_READ_D request succeeds (the function itself never stores into errno)
GlibcPeek == [errno0 |-> FALSE, clears |-> TRUE]

\* errno after process_vm_readv returned readv: set by a failure, kept otherwise
ErrnoAfterReadv(readv, libc) == IF readv < 0 THEN TRUE ELSE libc.errno0

\* the loop of PT_READ_D requests in arch_getProcMem, from word x on: peeksOk
\* is the number of requests that succeed before the first one that fails.
\* The result is [memsz, peeks]: the count and the requests that succeeded
RECURSIVE PeekLoop(_, _, _, _, _, _, _)
PeekLoop(W, cnt, peeksOk, clears, x, errno, memsz) ==
    IF x >= cnt THEN [memsz |-> memsz, peeks |-> x]
    ELSE LET ok == x < peeksOk
             e == IF ~ok THEN TRUE ELSE IF clears THEN FALSE ELSE errno
         IN  IF e
             THEN [memsz |-> memsz, peeks |-> IF ok THEN x + 1 ELSE x]
             ELSE PeekLoop(W, cnt, peeksOk, clears, x + 1, e, memsz + W)

\* arch_getProcMem as [ret, written, read]: readv is what process_vm_readv
\* returned (the bytes it stored at the start of buf, or -1); written is the
\* length of the prefix of buf that was stored into, read the bytes fetched
\* from the tracee
ProcMemRun(build, len, readv, peeksOk, libc) ==
    IF readv = len THEN [ret |-> len, written |-> len, read |-> len]
    ELSE LET W == SizeofLong(build)
             got == IF readv > 0 THEN readv ELSE 0
             l == PeekLoop(W, len \div W, peeksOk, libc.clears, 0,
                           ErrnoAfterReadv(readv, libc), 0)
         IN  [ret |-> l.memsz,
              written |-> IF got > l.memsz THEN got ELSE l.memsz,
              read |-> got + W * l.peeks]

\* arch_getProcMem: the count it returns
arch_getProcMem(build, len, readv, peeksOk, libc) ==
    ProcMemRun(build, len, readv, peeksOk, libc).ret

(* ----------------------------------------------------------- registers  *)
\* One register request (PTRACE_GETREGSET, PTRACE_GETREGS) gives a record
\* [ok, len, pc, status, lr]: whether it succeeded, the size of the block the
\* kernel filled ("S32", "S64" or another size) and the registers in it.

\* the block arch_getPC and arch_getLR decode: GETREGSET's, else GETREGS' (which
\* leaves iov_len at sizeof(regs)) where the build has PTRACE_GETREGS
RegsRead(build, regset, getregs) ==
    IF regset.ok THEN regset
    ELSE IF build.getregs /\ getregs.ok
         THEN [getregs EXCEPT !.len = IF build.cpu = "arm" /\ ~build.bits64
                                      THEN "S32" ELSE "S64"]
         ELSE [regset EXCEPT !.ok = FALSE]

\* arch_getPC: [sz, pc, status_reg]; sz = 0 when no view could be extracted
arch_getPC(build, regset, getregs) ==
    LET regs == RegsRead(build, regset, getregs)
    IN  IF ~regs.ok \/ regs.len \notin {"S32", "S64"}
        THEN [sz |-> 0, pc |-> 0, status_reg |-> 0]
        ELSE [sz |-> IF regs.len = "S32" THEN 4 ELSE 8,
              pc |-> regs.pc, status_reg |-> regs.status]

\* arch_getLR (ARM/ARM64): [sz, lr]
arch_getLR(build, regset, getregs) ==
    LET regs == RegsRead(build, regset, getregs)
    IN  IF ~regs.ok \/ regs.len \notin {"S32", "S64"}
        THEN [sz |-> 0, lr |-> 0]
        ELSE [sz |-> IF regs.len = "S32" THEN 4 ELSE 8, lr |-> regs.lr]

(* --------------------------------------------------- instruction string *)
Str_UNKNOWN == <<"[", "U", "N", "K", "N", "O", "W", "N", "]">>
Str_NOT_MMAPED == <<"[", "N", "O", "T", "_", "M", "M", "A", "P", "E", "D", "]">>

\* characters for which isspace() holds, and those for which isprint() fails
SpaceChars == {" ", "\t", "\n"}
NonPrintChars == {"\t", "\n", "\\001", "\\200"}

\* the loop at the end of arch_getInstrStr without its test for '/'
SanitizeChar_KeepSlash(c) ==
    IF c = "\\" \/ c \in SpaceChars \/ c \in NonPrintChars THEN "_" ELSE c

\* the loop at the end of arch_getInstrStr
SanitizeChar(c) ==
    IF c = "/" \/ c = "\\" \/ c \in SpaceChars \/ c \in NonPrintChars
    THEN "_" ELSE c

SanitizeInstr(instr) == [x \in 1..Len(instr) |-> SanitizeChar(instr[x])]

\* arch_getInstrStr: [pc, instr]; disasm = [ok, text] is what the disassembler
\* (arch_bfdDisasm, or capstone on Android) did: ok = FALSE when it wrote nothing
arch_getInstrStr(build, regset, getregs, readv, peeksOk, libc, disasm) ==
    LET r == arch_getPC(build, regset, getregs)
        memsz == arch_getProcMem(build, MAX_INSTR_SZ(build), readv, peeksOk, libc)
    IN  IF r.sz = 0 THEN [pc |-> r.pc, instr |-> Str_UNKNOWN]
        ELSE IF memsz = 0 THEN [pc |-> r.pc, instr |-> Str_NOT_MMAPED]
        ELSE IF ~disasm.ok /\ build.android
             THEN [pc |-> r.pc, instr |-> Str_UNKNOWN]
        ELSE [pc |-> r.pc,
              instr |-> SanitizeInstr(IF disasm.ok THEN disasm.text ELSE Str_UNKNOWN)]

(* ------------------------------------------------- lists of honggfuzz_t *)
\* fastArray64Search: binary search of a sorted array, the index or -1
RECURSIVE BinSearch(_, _, _, _)
BinSearch(array, lo, hi, key) ==
    IF lo > hi THEN -1
    ELSE LET mid == (lo + hi) \div 2
         IN  IF array[mid] = key THEN mid - 1
             ELSE IF array[mid] < key THEN BinSearch(array, mid + 1, hi, key)
             ELSE BinSearch(array, lo, mid - 1, key)

fastArray64Search(array, arraySz, key) == BinSearch(array, 1, arraySz, key)

\* arch_btContainsWLSymbol / arch_btContainsBLSymbol: some frame with a symbol
\* name is in the list
arch_btContainsSymbol(symbols, funcCnt, funcs) ==
    \E i \in 1..funcCnt : funcs[i].func # "" /\ funcs[i].func \in symbols

(* ----------------------------------------------------------- file names *)
\* the dry-run name "%s/%s" of workDir and origFileName
DryRunName(origFileName) == <<"orig", origFileName>>

\* "%s/%s.PC.%x.STACK.%x.CODE.%d.ADDR.%p.INSTR.%s.%s"
UniqueName(descr, pc, backtrace, code, addr, instr) ==
    <<"crash", descr, pc, backtrace, code, addr, instr>>

\* the same with "%s.%d" of local time and pid before the extension
TimePidName(descr, pc, backtrace, code, addr, instr, localtmstr, pid) ==
    <<"crash", descr, pc, backtrace, code, addr, instr, localtmstr, pid>>

\* the sanitizer path's name without uniqueness: local time, no pid
TimeName(descr, pc, backtrace, code, addr, instr, localtmstr) ==
    <<"crash", descr, pc, backtrace, code, addr, instr, localtmstr>>

\* the CODE field: "%d" of si_code, or "%s" of the sanitizer operation
CodeD(si_code) == <<"d", si_code>>
CodeS(op) == <<"s", op>>

(* ------------------------------------------- arch_ptraceSaveData, local *)
\* bzero(&si, sizeof(si)): what si holds when PT_GETSIGINFO failed
ZeroSiginfo == [ok |-> FALSE, si_signo |-> "0", si_code |-> 0, si_addr |-> 0]

\* funcs[] after arch_unwindStack and the zero-frames rule: the PC-only frame
FramesOrPc(unwind, pc) ==
    IF Len(unwind) = 0 /\ pc # 0
    THEN <<[pc |-> pc, func |-> "", line |-> 0]>>
    ELSE unwind

\* a zero-frames rule that leaves saveUnique as it is
SaveUniqueAfterUnwind_Keep(saveUnique, unwind, pc) == saveUnique

\* saveUnique after the zero-frames rule
SaveUniqueAfterUnwind(saveUnique, unwind, pc) ==
    IF Len(unwind) = 0 /\ pc = 0 THEN FALSE ELSE saveUnique

\* a single-frame rule that leaves saveUnique as it is
SaveUniqueAfterSingleFrame_Keep(build, saveUnique, funcCnt, lrr) == saveUnique

\* saveUnique after the single-frame rule; lrr is arch_getLR's result
SaveUniqueAfterSingleFrame(build, saveUnique, funcCnt, lrr) ==
    IF saveUnique /\ funcCnt = 1
    THEN IF build.cpu = "arm"
         THEN IF lrr.sz = 0 \/ lrr.lr = 0 THEN FALSE ELSE saveUnique
         ELSE FALSE
    ELSE saveUnique

\* fuzzer->backtrace after the single-frame rule: on ARM/ARM64 the link register
\* (0 when it could not be read) is hashed in
BacktraceAfterSingleFrame(build, saveUnique, funcCnt, lrr, backtrace) ==
    IF saveUnique /\ funcCnt = 1 /\ build.cpu = "arm"
    THEN BitXor(backtrace, util_hash(Last3(RegStr(build, lrr.lr))))
    ELSE backtrace

\* an ignoreAddr test that drops nothing
IsBelowIgnoreAddr_Never(h, si, pc) == FALSE

\* the ignoreAddr test
IsBelowIgnoreAddr(h, si, pc) ==
    ~SI_FROMUSER(si) /\ pc # 0 /\ si.si_addr < h.ignoreAddr

\* a test that never finds the same crash again
IsSameCrashAgain_Never(crashFileName, oldBacktrace, backtrace) == FALSE

\* a test that takes a crash with another stack hash for the same crash
IsSameCrashAgain_OtherHash(crashFileName, oldBacktrace, backtrace) ==
    crashFileName # EmptyStr /\ oldBacktrace # backtrace

\* "a tid has already crashed and the stack hashes match"
IsSameCrashAgain(crashFileName, oldBacktrace, backtrace) ==
    crashFileName # EmptyStr /\ oldBacktrace = backtrace

\* arch_ptraceSaveData from its entry to the test of crashFileName: the
\* locals it has then, and why it returned if it did (ret)
SaveDataAnalysis(h, build, f, in) ==
    LET si == IF in.si.ok THEN in.si ELSE ZeroSiginfo
        gi == arch_getInstrStr(build, in.regset, in.getregs,
                               in.readv, in.peeksOk, in.libc, in.disasm)
        funcs == FramesOrPc(in.unwind, gi.pc)
        funcCnt == Len(funcs)
        su1 == SaveUniqueAfterUnwind(h.saveUnique, in.unwind, gi.pc)
        bt1 == arch_hashCallstack(build, h.numMajorFrames, funcs, funcCnt, su1)
        lrr == arch_getLR(build, in.lrRegset, in.lrGetregs)
        su2 == SaveUniqueAfterSingleFrame(build, su1, funcCnt, lrr)
        bt2 == BacktraceAfterSingleFrame(build, su1, funcCnt, lrr, bt1)
        base == [si |-> si, sig_addr |-> si.si_addr, pc |-> gi.pc,
                 instr |-> gi.instr, funcs |-> <<>>, saveUnique |-> h.saveUnique,
                 backtrace |-> f.backtrace, sanCov |-> 0, ret |-> "ignoreAddr"]
    IN  IF IsBelowIgnoreAddr(h, si, gi.pc) THEN base
        ELSE [base EXCEPT !.funcs = funcs, !.saveUnique = su2, !.backtrace = bt2,
                          !.sanCov = IF h.useSanCov THEN 1 ELSE 0,
                          !.ret = IF IsSameCrashAgain(f.crashFileName, f.backtrace, bt2)
                                  THEN "sameCrash" ELSE "no"]

\* a filter that looks at the stack hash blacklist before the whitelist
SaveDataFilter_BlacklistFirst(h, backtrace, funcs) ==
    IF fastArray64Search(h.blacklist, Len(h.blacklist), backtrace) # -1
    THEN "blacklistedHash"
    ELSE IF arch_btContainsSymbol(h.symbolsWhitelist, Len(funcs), funcs)
         THEN "whitelisted"
    ELSE IF arch_btContainsSymbol(h.symbolsBlacklist, Len(funcs), funcs)
         THEN "blacklistedSymbol"
    ELSE "save"

\* the checks without the one of the stack hash blacklist
SaveDataFilter_NoHashList(h, backtrace, funcs) ==
    IF arch_btContainsSymbol(h.symbolsWhitelist, Len(funcs), funcs) THEN "whitelisted"
    ELSE IF arch_btContainsSymbol(h.symbolsBlacklist, Len(funcs), funcs)
         THEN "blacklistedSymbol"
    ELSE "save"

\* the checks between the crashes counter and saveCrash: where the code goes
SaveDataFilter(h, backtrace, funcs) ==
    IF arch_btContainsSymbol(h.symbolsWhitelist, Len(funcs), funcs) THEN "whitelisted"
    ELSE IF fastArray64Search(h.blacklist, Len(h.blacklist), backtrace) # -1
         THEN "blacklistedHash"
    ELSE IF arch_btContainsSymbol(h.symbolsBlacklist, Len(funcs), funcs)
         THEN "blacklistedSymbol"
    ELSE "save"

\* the crash file name arch_ptraceSaveData composes
SaveDataFileName(h, build, f, l, saveUnique, localtmstr, pid) ==
    LET pc == IF h.disableRandomization THEN l.pc ELSE 0
        a1 == IF h.disableRandomization THEN l.sig_addr ELSE 0
        sig_addr == IF SI_FROMUSER(l.si) THEN 0 ELSE a1
        descr == arch_sigs(l.si.si_signo, build.android).descr
    IN  IF h.flipRateZero /\ h.useVerifier THEN DryRunName(f.origFileName)
        ELSE IF saveUnique
             THEN UniqueName(descr, pc, f.backtrace, CodeD(l.si.si_code),
                             sig_addr, l.instr)
             ELSE TimePidName(descr, pc, f.backtrace, CodeD(l.si.si_code),
                              sig_addr, l.instr, localtmstr, pid)

\* arch_ptraceGenerateReport: the lines written to fuzzer->report
arch_ptraceGenerateReport(build, pid, f, funcs, si, instr) ==
    << <<"ORIG_FNAME", f.origFileName>>,
       <<"FUZZ_FNAME", f.crashFileName>>,
       <<"PID", pid>>,
       <<"SIGNAL", arch_sigs(si.si_signo, build.android).descr, si.si_signo>>,
       <<"FAULT ADDRESS", IF SI_FROMUSER(si) THEN 0 ELSE si.si_addr>>,
       <<"INSTRUCTION", instr>>,
       <<"STACK HASH", f.backtrace>>,
       <<"STACK:">> >>
    \o [i \in 1..Len(funcs) |-> <<"FRAME", funcs[i].pc, funcs[i].func, funcs[i].line>>]

(* ----------------------------------------- arch_ptraceAnalyzeData, local *)
\* an analysis that stores no hash
arch_ptraceAnalyzeData_Zero(h, build, f, in) == 0

\* arch_ptraceAnalyzeData: the value of fuzzer->backtrace when it returns
arch_ptraceAnalyzeData(h, build, f, in) ==
    LET r == arch_getPC(build, in.regset, in.getregs)
        funcs == FramesOrPc(in.unwind, r.pc)
        funcCnt == Len(funcs)
        bt1 == arch_hashCallstack(build, h.numMajorFrames, funcs, funcCnt, FALSE)
        lrr == arch_getLR(build, in.lrRegset, in.lrGetregs)
    IN  IF r.sz = 0 THEN f.backtrace
        ELSE IF funcCnt = 0 THEN f.backtrace
        ELSE IF build.cpu = "arm" /\ funcCnt = 1 /\ lrr.sz # 0
             THEN BitXor(bt1, util_hash(Last3(RegStr(build, lrr.lr))))
        ELSE bt1

(* ------------------------------------------------------- the environment *)
\* the builds modelled: x86_64 Linux, and aarch64 Android (no PTRACE_GETREGS,
\* SIGABRT not monitored, capstone as the disassembler)
BuildX86 == [cpu |-> "x86", bits64 |-> TRUE, android |-> FALSE, getregs |-> TRUE]
BuildArm == [cpu |-> "arm", bits64 |-> TRUE, android |-> TRUE, getregs |-> FALSE]
Builds == {BuildX86, BuildArm}

Slots == 1..MaxWorkers
\* the thread ids of the tracee of worker s
PidsOf(s) == {10 * s + k : k \in 1..MaxTids}
AllPids == UNION {PidsOf(s) : s \in Slots}
\* the thread of the tracee that is its thread group leader
LeaderOf(s) == 10 * s + 1
Times == 1..MaxTime

\* the symbol table of the tracee: what symbol resolution finds for a frame
SymTab(framePc) == IF framePc = 2 THEN "w" ELSE IF framePc = 3 THEN "b" ELSE ""

Frame(framePc) == [pc |-> framePc, func |-> SymTab(framePc), line |-> 0]
Frames(framePcs) == [i \in 1..Len(framePcs) |-> Frame(framePcs[i])]

\* A crash site of the tracee: the signal it stops with, its siginfo, the
\* registers of the stopped thread, whether the text at pc can be read, what
\* the disassembler makes of it, and the stack the unwinder finds.
CrashSite(sig, si_code, si_addr, sitePc, lr, mapped, framePcs) ==
    [ sig |-> sig,
      si |-> [ok |-> TRUE, si_signo |-> sig, si_code |-> si_code, si_addr |-> si_addr],
      pc |-> sitePc, lr |-> lr, mapped |-> mapped,
      text |-> <<"a", " ", "/">>, unwind |-> Frames(framePcs) ]

\* a crash in a function with a whitelisted frame below it
SiteA == CrashSite("SIGSEGV", 1, 3, 1, 2, TRUE, <<1, 2>>)
\* a fault at a low address, one frame
SiteB == CrashSite("SIGSEGV", 1, 1, 4097, 2, TRUE, <<1>>)
\* a signal sent by the user (kill), the stack of SiteA in another order
SiteC == CrashSite("SIGABRT", 0, 0, 1, 0, TRUE, <<2, 1>>)
\* a jump to address 0: nothing mapped there, no frame found
SiteD == CrashSite("SIGSEGV", 1, 0, 0, 2, FALSE, <<>>)
\* one frame, in a blacklisted function, the link register zero
SiteE == CrashSite("SIGSEGV", 1, 3, 1, 0, TRUE, <<3>>)
\* no frame found at a mapped pc; the hash of the link register has its top
\* bit set
SiteF == CrashSite("SIGSEGV", 1, 3, 1, 8, TRUE, <<>>)
\* a stop that is no crash
SiteT == CrashSite("SIGTRAP", 0, 0, 1, 2, TRUE, <<1>>)

\* Which requests to the tracee work while a stop is analysed: PT_GETSIGINFO;
\* the registers ("regset": PTRACE_GETREGSET works, "getregs": only
\* PTRACE_GETREGS does, "size": a block of unknown size, "fail": neither);
\* the text ("readv", "peek": only PT_READ_D works, "fail"); the unwinder; and
\* the registers again for the link register.
Works == [si |-> TRUE, regs |-> "regset", mem |-> "readv", unwind |-> TRUE, lr |-> TRUE]
Gone == [si |-> FALSE, regs |-> "fail", mem |-> "fail", unwind |-> FALSE, lr |-> FALSE]

NoRegs == [ok |-> FALSE, len |-> "S64", pc |-> 0, status |-> 0, lr |-> 0]

\* what the requests of the analysis give for a crash site under a mode
Answers(build, site, mode) ==
    [ si |-> IF mode.si THEN site.si ELSE ZeroSiginfo,
      regset |-> IF mode.regs = "regset" THEN [NoRegs EXCEPT !.ok = TRUE, !.pc = site.pc]
                 ELSE IF mode.regs = "size"
                      THEN [NoRegs EXCEPT !.ok = TRUE, !.len = "S??", !.pc = site.pc]
                 ELSE NoRegs,
      getregs |-> IF mode.regs = "getregs" THEN [NoRegs EXCEPT !.ok = TRUE, !.pc = site.pc]
                  ELSE NoRegs,
      readv |-> IF mode.mem = "readv" /\ site.mapped THEN MAX_INSTR_SZ(build) ELSE -1,
      peeksOk |-> IF mode.mem = "peek" /\ site.mapped
                  THEN MAX_INSTR_SZ(build) \div SizeofLong(build) ELSE 0,
      libc |-> GlibcPeek,
      disasm |-> [ok |-> TRUE, text |-> site.text],
      unwind |-> IF mode.unwind THEN site.unwind ELSE <<>>,
      lrRegset |-> IF mode.lr THEN [NoRegs EXCEPT !.ok = TRUE, !.lr = site.lr] ELSE NoRegs,
      lrGetregs |-> NoRegs ]

\* The signal stops a worker is handed, as <<pid, site, mode>>. A run follows
\* one profile: "signal" has every mode of failure at SiteA and the other
\* sites as they are, on the leader thread; "exit" and "par" have few.
SignalStops(profile, s) ==
    IF profile = "signal"
    THEN { <<LeaderOf(s), SiteA, m>> :
             m \in { Works, Gone,
                     [Works EXCEPT !.si = FALSE],
                     [Works EXCEPT !.regs = "fail", !.lr = FALSE],
                     [Works EXCEPT !.regs = "getregs"],
                     [Works EXCEPT !.regs = "size"],
                     [Works EXCEPT !.mem = "fail"],
                     [Works EXCEPT !.mem = "peek"],
                     [Works EXCEPT !.unwind = FALSE] } }
         \cup { <<LeaderOf(s), SiteB, m>> :
                  m \in { Works, [Works EXCEPT !.lr = FALSE],
                          [Works EXCEPT !.unwind = FALSE] } }
         \cup { <<LeaderOf(s), site, Works>> :
                  site \in {SiteC, SiteD, SiteE, SiteF, SiteT} }
         \cup { <<p, SiteA, Works>> : p \in PidsOf(s) }
    ELSE { <<p, site, Works>> : p \in PidsOf(s), site \in {SiteA, SiteC} }
         \cup { <<LeaderOf(s), SiteT, Works>> }

(* ------------------------------------------------------- "%d" strings *)
DecChars == <<"0", "1", "2", "3", "4", "5", "6", "7", "8", "9">>

DigitOf(c) == (CHOOSE d \in 1..10 : DecChars[d] = c) - 1

\* "%d" of a pid, the name of its entry in /proc/<pid>/task
RECURSIVE DecStr(_)
DecStr(n) ==
    IF n < 10 THEN <<DecChars[n + 1]>>
    ELSE DecStr(n \div 10) \o <<DecChars[(n % 10) + 1]>>

\* strncmp(p, s, strlen(p)) == 0
IsPrefixOf(p, s) == Len(p) <= Len(s) /\ SubSeq(s, 1, Len(p)) = p

(* ------------------------------------------------------ sanitizer logs *)
\* _HF_MAX_FUNCS: the size of funcs[]
HF_MAX_FUNCS == 80

\* A line of a sanitizer log, by what the parser asks of it: whether it is the
\* header "==<pid>==ERROR: AddressSanitizer:" (and the "address 0x.." in it),
\* begins with white space (indent), is empty after it, is shorter than 10
\* characters after it, then starts with "READ" or with "WRITE", holds the
\* text cAddr points to, or is the frame "#<idx> 0x<pc> (<func>+0x<line>)".
\* Every line fits the buffer getline() allocated for the first one.
LogLine == [kind |-> "text", pid |-> 0, hasAddr |-> FALSE, addr |-> 0, indent |-> FALSE,
            short |-> FALSE, startsRead |-> FALSE, startsWrite |-> FALSE,
            findsAddr |-> FALSE, idx |-> 0, pc |-> 0, func |-> "", line |-> 0]
HdrLine(pid, hasAddr, addr) ==
    [LogLine EXCEPT !.kind = "hdr", !.pid = pid, !.hasAddr = hasAddr, !.addr = addr]
\* "\n": its newline is white space
BlankLine == [LogLine EXCEPT !.kind = "blank", !.short = TRUE, !.indent = TRUE]
OpLine(startsRead) ==
    [LogLine EXCEPT !.startsRead = startsRead, !.findsAddr = TRUE]
FrameLine(idx, framePc, func, line) ==
    [LogLine EXCEPT !.kind = "frame", !.idx = idx, !.pc = framePc, !.func = func,
                    !.line = line]

\* strncmp(lineptr, framePrefix, strlen(framePrefix)) == 0 for the frame line
\* "#<idx> ..." and framePrefix "#<frameIdx>"
FramePrefixMatches(frameIdx, idx) == IsPrefixOf(DecStr(frameIdx), DecStr(idx))

\* "If available parse the type of error (READ/WRITE)": *op after the two
\* strncmp tests of a line that holds the text cAddr points to
OpOfLine(startsRead, startsWrite, op) ==
    IF ~startsRead THEN "READ"
    ELSE IF ~startsWrite THEN "WRITE"
    ELSE op

\* the locals of arch_parseAsanReport before the first line; moved says that
\* lineptr is no longer the pointer getline() allocated
ParseStart == [headerFound |-> FALSE, frameIdx |-> 0, cAddr |-> FALSE, crashAddr |-> 0,
               op |-> "UNKNOWN", funcs |-> <<>>, moved |-> FALSE]

\* the loop of arch_parseAsanReport from line i on
RECURSIVE ParseLines(_, _, _, _)
ParseLines(lines, i, pid, st) ==
    IF i > Len(lines) THEN st
    ELSE LET l == lines[i]
             op == IF st.cAddr /\ l.findsAddr
                   THEN OpOfLine(l.startsRead, l.startsWrite, st.op)
                   ELSE st.op
             tr == [st EXCEPT !.moved = @ \/ l.indent]
         IN  IF ~st.headerFound
             THEN IF l.kind = "hdr" /\ l.pid = pid
                  THEN ParseLines(lines, i + 1, pid,
                           [st EXCEPT !.headerFound = TRUE, !.cAddr = l.hasAddr,
                                      !.crashAddr = IF l.hasAddr THEN l.addr ELSE 0])
                  ELSE ParseLines(lines, i + 1, pid, st)
             ELSE IF l.kind = "blank" /\ st.frameIdx # 0 THEN tr
             ELSE IF l.short THEN ParseLines(lines, i + 1, pid, tr)
             ELSE IF l.kind = "frame" /\ FramePrefixMatches(st.frameIdx, l.idx)
                  THEN IF st.frameIdx >= HF_MAX_FUNCS THEN [tr EXCEPT !.op = op]
                       ELSE ParseLines(lines, i + 1, pid,
                                [tr EXCEPT !.op = op, !.frameIdx = @ + 1,
                                    !.funcs = Append(@, [pc |-> l.pc, func |-> l.func,
                                                         line |-> l.line])])
             ELSE ParseLines(lines, i + 1, pid, [tr EXCEPT !.op = op])

NoLog == [exists |-> FALSE, lines |-> <<>>]

\* a parser that reports no frames where the log cannot be opened
arch_parseAsanReport_NoFrames(log, pid) ==
    [ret |-> 0, funcs |-> <<>>, crashAddr |-> 0, op |-> "UNKNOWN", moved |-> FALSE]

\* arch_parseAsanReport up to its free(lineptr): [ret, funcs, crashAddr, op,
\* moved]; ret is -1 when the log of the pid cannot be opened, else the number
\* of frames
arch_parseAsanReport(log, pid) ==
    LET st == ParseLines(log.lines, 1, pid, ParseStart)
    IN  IF ~log.exists
        THEN [ret |-> -1, funcs |-> <<>>, crashAddr |-> 0, op |-> "UNKNOWN",
              moved |-> FALSE]
        ELSE [ret |-> st.frameIdx, funcs |-> st.funcs, crashAddr |-> st.crashAddr,
              op |-> st.op, moved |-> st.moved]

\* The ways a call of arch_parseAsanReport can end, as [returned, unlinked,
\* res]. Trimming a line advances lineptr itself, and the advanced pointer is
\* handed to getline() and to free(): that is undefined, and the allocator
\* either takes the pointer (the call returns after unlink()) or aborts the
\* process in free(), before unlink(). A log that was opened and parsed
\* without that is unlinked.
ParseOutcomes(log, pid) ==
    LET r == arch_parseAsanReport(log, pid)
    IN  { [returned |-> TRUE, unlinked |-> log.exists, res |-> r] }
        \cup IF r.moved
             THEN { [returned |-> FALSE, unlinked |-> FALSE, res |-> r] }
             ELSE {}

\* the logs a tracee leaves for the pid: a report of a READ with two frames, a
\* report of another pid, and a report without frames or address; no line
\* after the header begins with white space
LogsOf(pid) ==
    { [exists |-> TRUE,
       lines |-> <<HdrLine(pid, TRUE, 3), OpLine(TRUE), FrameLine(0, 1, "lib", 5),
                   FrameLine(1, 2, "", 0)>>],
      [exists |-> TRUE,
       lines |-> <<HdrLine(pid + 1, TRUE, 3), FrameLine(0, 1, "lib", 5)>>],
      [exists |-> TRUE,
       lines |-> <<BlankLine, HdrLine(pid, FALSE, 0), OpLine(FALSE)>>] }

(* ------------------------------------------------------------ the state *)
VARIABLES
    hfuzz,      \* honggfuzz_t: the configuration and the shared counters
    build,      \* the build the code was compiled for
    profile,    \* which statuses the workers of this run are handed
    fuzzer,     \* fuzzer_t of every worker (its slot)
    files,      \* the crash files in the work directory
    writes,     \* how many times each of them was written
    asanLog,    \* the sanitizer log of every pid, where one exists
    pos,        \* where every worker is in its handler
    loc,        \* the locals of the handler a worker is in
    budget,     \* wait statuses a worker is still handed
    ev,         \* per worker, a record of what the current (or last) call did
    alive,      \* whether the traced process exists
    call,       \* the call of arch_ptraceAttach or arch_ptraceDetach under way
    app         \* a function of the file applied by itself: arguments and result

\* the variables of the crash analysis and those of attach and detach
svars == <<hfuzz, build, profile, fuzzer, files, writes, asanLog, pos, loc, budget, ev>>
tvars == <<alive, call>>
vars == <<svars, tvars, app>>

NoLoc == [pid |-> 0, si |-> ZeroSiginfo, sig_addr |-> 0, pc |-> 0, instr |-> <<>>,
          funcs |-> <<>>, funcCnt |-> 0, saveUnique |-> FALSE, filter |-> "",
          exitCode |-> "", op |-> "", crashAddr |-> 0, cont |-> <<>>]

\* the record of a call of arch_ptraceAnalyze: the status it was given, the
\* slot as it was, and what the call has done so far
NoEv == [kind |-> "none", pid |-> 0, sig |-> "0", code |-> "", handler |-> "none",
         pre |-> [crashFileName |-> EmptyStr, backtrace |-> 0, sanCov |-> 0,
                  report |-> <<>>, crashesCnt |-> 0, uniqueCrashesCnt |-> 0],
         reqs |-> <<>>, ret |-> "", hashed |-> FALSE, regFail |-> FALSE,
         siFail |-> FALSE, memFail |-> FALSE, unwindCnt |-> 0, whitelisted |-> FALSE,
         blHash |-> FALSE, msgFail |-> FALSE, mode |-> Works,
         si |-> ZeroSiginfo, pc |-> 0, exitKind |-> "none", exitCode |-> "",
         log |-> "none", unwind |-> <<>>, lr |-> 0, lrOk |-> FALSE,
         incCrashes |-> 0, incUnique |-> 0, incBl |-> 0, subMask |-> FALSE,
         tot |-> [crashesCnt |-> 0, uniqueCrashesCnt |-> 0, blCrashesCnt |-> 0],
         copy |-> "none", copyName |-> EmptyStr, report |-> FALSE,
         prev |-> [handler |-> "none", hashed |-> FALSE, backtrace |-> 0,
                   copy |-> "none", ret |-> ""]]

\* a new record for worker s, remembering the call before it
NewEv(s, kind, pid, sig, code, handler) ==
    [NoEv EXCEPT !.kind = kind, !.pid = pid, !.sig = sig, !.code = code,
                 !.handler = handler,
                 !.pre = [crashFileName |-> fuzzer[s].crashFileName,
                          backtrace |-> fuzzer[s].backtrace,
                          sanCov |-> fuzzer[s].sanCovCrashesCnt,
                          report |-> fuzzer[s].report,
                          crashesCnt |-> hfuzz.crashesCnt,
                          uniqueCrashesCnt |-> hfuzz.uniqueCrashesCnt],
                 !.tot = ev[s].tot,
                 !.prev = [handler |-> ev[s].handler, hashed |-> ev[s].hashed,
                           backtrace |-> fuzzer[s].backtrace, copy |-> ev[s].copy,
                           ret |-> ev[s].ret]]

\* a continue request that does not forward the signal
PtContinue_NoSignal(pid, sig) == [req |-> "PT_CONTINUE", pid |-> pid, data |-> "0"]

\* ptrace(PT_CONTINUE, pid, 0, sig)
PtContinue(pid, sig) == [req |-> "PT_CONTINUE", pid |-> pid, data |-> sig]

\* a set of hashes as the sorted array hfuzz->blacklist
RECURSIVE SortedSeq(_)
SortedSeq(S) ==
    IF S = {} THEN <<>>
    ELSE LET m == CHOOSE x \in S : \A y \in S : x <= y
         IN  <<m>> \o SortedSeq(S \ {m})

\* the stack hash blacklist tried when there is one: the hash of the stack
\* <<1, 2>> and the hashes of the stack <<1>> with and without the mask
BlacklistOf(b) ==
    SortedSeq({ arch_hashCallstack(b, NMAJORFRAMES, Frames(<<1, 2>>), 2, FALSE),
                arch_hashCallstack(b, NMAJORFRAMES, Frames(<<1>>), 1, FALSE),
                arch_hashCallstack(b, NMAJORFRAMES, Frames(<<1>>), 1, TRUE) })

\* the configuration every other one is a variation of
BaseConfig ==
    [ saveUnique |-> TRUE, disableRandomization |-> TRUE, flipRateZero |-> FALSE,
      useVerifier |-> FALSE, saveMaps |-> FALSE, useSanCov |-> TRUE,
      ignoreAddr |-> 2, numMajorFrames |-> NMAJORFRAMES,
      symbolsWhitelist |-> {}, symbolsBlacklist |-> {}, blacklist |-> <<>>,
      crashesCnt |-> 0, uniqueCrashesCnt |-> 0, blCrashesCnt |-> 0,
      dynFileIterExpire |-> Pow2(DynBits) - 1 ]

\* the base configuration with a stack hash blacklist only
BlacklistConfig(b) == [BaseConfig EXCEPT !.blacklist = BlacklistOf(b)]

\* the base configuration with all three lists
ListsConfig(b) ==
    [BaseConfig EXCEPT !.symbolsWhitelist = {"w"}, !.symbolsBlacklist = {"b"},
                       !.blacklist = BlacklistOf(b)]

\* the base configuration with the other options the other way round
OtherConfig ==
    [BaseConfig EXCEPT !.disableRandomization = FALSE, !.saveMaps = TRUE,
                       !.useSanCov = FALSE, !.ignoreAddr = 0, !.numMajorFrames = 1]

\* dry run: no mutation, verifier on
DryRunConfig == [BaseConfig EXCEPT !.flipRateZero = TRUE, !.useVerifier = TRUE]

\* dry run with the symbol lists and the stack hash blacklist
ListsDryRunConfig(b) ==
    [ListsConfig(b) EXCEPT !.flipRateZero = TRUE, !.useVerifier = TRUE]

\* the configurations tried under a profile
Configs(p, b) ==
    IF p = "signal"
    THEN { BaseConfig, [BaseConfig EXCEPT !.saveUnique = FALSE], BlacklistConfig(b),
           ListsConfig(b), [ListsConfig(b) EXCEPT !.saveUnique = FALSE],
           OtherConfig, DryRunConfig, ListsDryRunConfig(b) }
    ELSE { BaseConfig, [BaseConfig EXCEPT !.saveUnique = FALSE], DryRunConfig }

NewSlot(mainWorker) ==
    [ crashFileName |-> EmptyStr, backtrace |-> 0, mainWorker |-> mainWorker,
      origFileName |-> "seed", sanCovCrashesCnt |-> 0, report |-> <<>> ]

(* ------------------------------------------- thread lists, attach, detach *)
MaxCalls == 2
MaxEintr == 2

MAX_THREAD_IN_TASK == 4096

\* an int array of the given size, every cell 0: cells holds the cells up to
\* the last one written, the cells after it are still 0; oob is set by a write
\* at an index that is not in the array
NewArray(size) == [size |-> size, cells |-> <<>>, oob |-> FALSE]

\* tasks[i]
ArrGet(a, i) == IF i < Len(a.cells) THEN a.cells[i + 1] ELSE 0

\* tasks[i] = v
ArrPut(a, i, v) ==
    IF i >= a.size THEN [a EXCEPT !.oob = TRUE]
    ELSE LET padded == IF i < Len(a.cells) THEN a.cells
                       ELSE a.cells \o [k \in 1..(i + 1 - Len(a.cells)) |-> 0]
         IN  [a EXCEPT !.cells = [padded EXCEPT ![i + 1] = v]]

\* the decimal digits
\* strtol(d_name, NULL, 10) of a name without blanks or sign: the value of the
\* digits it begins with, 0 where it begins with none
RECURSIVE StrtolFrom(_, _, _)
StrtolFrom(str, k, acc) ==
    IF k > Len(str) THEN acc
    ELSE IF \A d \in 1..10 : DecChars[d] # str[k] THEN acc
    ELSE StrtolFrom(str, k + 1, (acc * 10) + DigitOf(str[k]))

strtol(str) == StrtolFrom(str, 1, 0)

\* the loop of arch_listThreads from the k-th readdir_r on, count tasks stored
\* so far: readdir_r fails at call errAt, the entries end, a name that converts
\* to 0 is skipped, another is stored and ends the loop when count >= thrSz
RECURSIVE ListThreadsLoop(_, _, _, _, _)
ListThreadsLoop(tasks, thrSz, dir, k, count) ==
    IF dir.errAt = k
    THEN [err |-> TRUE, tasks |-> tasks, count |-> count]
    ELSE IF k > Len(dir.entries)
    THEN [err |-> FALSE, tasks |-> tasks, count |-> count]
    ELSE LET pid == strtol(dir.entries[k])
         IN  IF pid = 0
             THEN ListThreadsLoop(tasks, thrSz, dir, k + 1, count)
             ELSE IF count + 1 >= thrSz
             THEN [err |-> FALSE, tasks |-> ArrPut(tasks, count, pid),
                   count |-> count + 1]
             ELSE ListThreadsLoop(ArrPut(tasks, count, pid), thrSz, dir,
                                  k + 1, count + 1)

\* arch_listThreads: [ret, tasks, count]; false where the directory cannot be
\* opened or read or holds no task; after the loop tasks[count + 1] = 0
arch_listThreads(tasks, thrSz, dir) ==
    IF ~dir.open THEN [ret |-> FALSE, tasks |-> tasks, count |-> 0]
    ELSE LET l == ListThreadsLoop(tasks, thrSz, dir, 1, 0)
         IN  IF l.err THEN [ret |-> FALSE, tasks |-> l.tasks, count |-> l.count]
             ELSE [ret |-> l.count >= 1, tasks |-> ArrPut(l.tasks, l.count + 1, 0),
                   count |-> l.count]

\* the process attach and detach are called for
TracedPid == LeaderOf(1)

\* a sequence the other way round
Reverse(q) == [k \in 1..Len(q) |-> q[Len(q) + 1 - k]]

\* the names of the entries of /proc/<pid>/task for the tasks in T
TaskNames(T) ==
    LET sorted == SortedSeq(T)
    IN  <<<<".">>, <<".", ".">>>> \o [k \in 1..Len(sorted) |-> DecStr(sorted[k])]

\* what opendir and readdir_r give for /proc/<pid>/task: the directory cannot
\* be opened; it lists some of the tasks, in either order; reading it fails at
\* the last entry. A process that is gone has no directory or one without tasks
TaskDirs(isAlive) ==
    LET gone == {[open |-> FALSE, errAt |-> 0, entries |-> <<>>],
                 [open |-> TRUE, errAt |-> 0, entries |-> TaskNames({})]}
        lists == {[open |-> TRUE, errAt |-> 0, entries |-> TaskNames(T)] :
                    T \in SUBSET PidsOf(1) \ {{}}}
        back == [open |-> TRUE, errAt |-> 0,
                 entries |-> Reverse(TaskNames(PidsOf(1)))]
        fails == [open |-> TRUE, errAt |-> Len(TaskNames(PidsOf(1))),
                  entries |-> TaskNames(PidsOf(1))]
    IN  IF isAlive THEN gone \cup lists \cup {back, fails} ELSE gone

\* what a ptrace request returns
PtraceResults(isAlive) == IF isAlive THEN {"0", "-1"} ELSE {"-1"}

\* what kill(pid, 0) returns
KillResults(isAlive) ==
    IF isAlive THEN {[ret |-> 0, errno |-> "0"], [ret |-> -1, errno |-> "EPERM"]}
    ELSE {[ret |-> -1, errno |-> "ESRCH"]}

\* what wait4(tid, &status, __WALL | WUNTRACED, NULL) returns after eintr
\* interrupted calls: a signal interrupts it (at most MaxEintr times in a row),
\* the task is not a child to wait for, a status of a task that exited, and
\* while the process exists a status of a stopped task
WaitResults(isAlive, tid, eintr) ==
    {[ret |-> -1, errno |-> "ECHILD", status |-> "none"],
     [ret |-> tid, errno |-> "0", status |-> "exited"]}
    \cup (IF eintr < MaxEintr
          THEN {[ret |-> -1, errno |-> "EINTR", status |-> "none"]} ELSE {})
    \cup (IF isAlive
          THEN {[ret |-> tid, errno |-> "0", status |-> "stopped"]} ELSE {})

\* a wait loop that calls wait4 again after every failure
WaitRestarts_OnFailure(w) == w.ret = -1

\* arch_ptraceWaitForPidStop: wait4 is called again
WaitRestarts(w) == w.ret = -1 /\ w.errno = "EINTR"

\* arch_ptraceWaitForPidStop: what it returns for the last result of wait4
WaitForPidStopRet(w) ==
    IF w.ret = -1 THEN "false"
    ELSE IF w.status # "stopped" THEN "false"
    ELSE "true"

\* an attach loop that skips no task
AttachSkips_None(task, pid) == FALSE

\* arch_ptraceAttach: the task is the pid already attached to
AttachSkips(task, pid) == task = pid

\* arch_ptraceDetach: kill(pid, 0) says there is no such process
NoLongerExists(k) == k.ret = -1 /\ k.errno = "ESRCH"

\* the test of the loops over tasks
MoreTasks(tasks, i) == i < MAX_THREAD_IN_TASK /\ ArrGet(tasks, i) # 0

\* the requests of one call that are remembered
MaxLog == (MaxTids * (MaxEintr + 3)) + 1

Logged(log, op, tid, res) ==
    IF Len(log) < MaxLog THEN Append(log, [op |-> op, tid |-> tid, res |-> res])
    ELSE log

\* no function applied by itself
NoApp == [fn |-> "none"]

\* no call under way: fn and pc say where the call is, ret what it returned,
\* left how many calls are still made
NoCall == [fn |-> "none", pc |-> "idle", tasks |-> NewArray(MAX_THREAD_IN_TASK + 1),
           i |-> 0, log |-> <<>>, ret |-> "none", kill |-> "none",
           listed |-> "none", count |-> 0, eintr |-> 0, waitRet |-> "none",
           left |-> 0]

\* one worker is handed MaxEvents statuses of its tracee, with every way a
\* signal stop can go
InitSignal ==
    /\ profile = "signal"
    /\ build \in Builds
    /\ hfuzz \in Configs(profile, build)
    /\ fuzzer \in { [s \in Slots |-> NewSlot(m)] : m \in BOOLEAN }
    /\ asanLog = [p \in AllPids |-> NoLog]
    /\ budget = [s \in Slots |-> IF s = 1 THEN MaxEvents ELSE 0]

\* one worker is handed MaxEvents statuses of its tracee, with every way an
\* exit can go; the tracee may have left a sanitizer log under its process id
InitExit ==
    /\ profile = "exit"
    /\ build = BuildArm
    /\ hfuzz \in Configs(profile, build)
    /\ fuzzer = [s \in Slots |-> NewSlot(TRUE)]
    /\ asanLog \in { [p \in AllPids |-> NoLog] }
                   \cup { [p \in AllPids |-> IF p = LeaderOf(1) THEN l ELSE NoLog] :
                            l \in LogsOf(LeaderOf(1)) }
    /\ budget = [s \in Slots |-> IF s = 1 THEN MaxEvents ELSE 0]

\* every worker is handed one status of its own tracee, in parallel
InitPar ==
    /\ profile = "par"
    /\ build = BuildX86
    /\ hfuzz \in Configs(profile, build)
    /\ fuzzer = [s \in Slots |-> NewSlot(TRUE)]
    /\ asanLog = [p \in AllPids |-> NoLog]
    /\ budget = [s \in Slots |-> 1]

Init ==
    /\ InitSignal \/ InitExit \/ InitPar
    /\ files = {}
    /\ writes = [n \in {} |-> 0]
    /\ pos = [s \in Slots |-> "idle"]
    /\ loc = [s \in Slots |-> NoLoc]
    /\ ev = [s \in Slots |-> NoEv]
    /\ alive = TRUE
    /\ call = NoCall
    /\ app = NoApp

(* --------------------------------------------------- arch_ptraceAnalyze *)
\* a worker is handed a wait status when it is not handling one
CanTake(s) == pos[s] = "idle" /\ budget[s] > 0

Taken(s) == budget' = [budget EXCEPT ![s] = @ - 1]

\* the handler of worker s returns: back in the wait loop
Returned(s) ==
    /\ pos' = [pos EXCEPT ![s] = "idle"]
    /\ loc' = [loc EXCEPT ![s] = NoLoc]

\* WIFSTOPPED, no trace event, a signal that is not important: continue
Analyze_StopOther(s) ==
    /\ CanTake(s)
    /\ \E stop \in SignalStops(profile, s) :
         LET pid == stop[1]
             sig == stop[2].sig
         IN  /\ ~arch_sigs(sig, build.android).important
             /\ ev' = [ev EXCEPT ![s] =
                    [NewEv(s, "stopSignal", pid, sig, "", "none")
                       EXCEPT !.reqs = <<PtContinue(pid, sig)>>, !.ret = "returned"]]
    /\ Taken(s)
    /\ UNCHANGED <<hfuzz, build, profile, fuzzer, files, writes, asanLog, pos, loc, tvars, app>>

\* WIFSTOPPED, an important signal, not the main worker:
\* arch_ptraceAnalyzeData, then continue
Analyze_StopAnalyzeData(s) ==
    /\ CanTake(s)
    /\ ~fuzzer[s].mainWorker
    /\ \E stop \in SignalStops(profile, s) :
         LET pid == stop[1]
             sig == stop[2].sig
             in == Answers(build, stop[2], stop[3])
         IN  /\ arch_sigs(sig, build.android).important
             /\ fuzzer' = [fuzzer EXCEPT ![s].backtrace =
                               arch_ptraceAnalyzeData(hfuzz, build, fuzzer[s], in)]
             /\ ev' = [ev EXCEPT ![s] =
                   [NewEv(s, "stopSignal", pid, sig, "", "AnalyzeData")
                      EXCEPT !.reqs = <<PtContinue(pid, sig)>>, !.ret = "returned",
                             !.mode = stop[3], !.siFail = ~in.si.ok,
                             !.regFail = arch_getPC(build, in.regset, in.getregs).sz = 0,
                             !.pc = arch_getPC(build, in.regset, in.getregs).pc,
                             !.unwind = in.unwind,
                             !.lr = arch_getLR(build, in.lrRegset, in.lrGetregs).lr,
                             !.lrOk = arch_getLR(build, in.lrRegset, in.lrGetregs).sz # 0,
                             !.unwindCnt = Len(in.unwind)]]
    /\ Taken(s)
    /\ UNCHANGED <<hfuzz, build, profile, files, writes, asanLog, pos, loc, tvars, app>>

\* files_copyFile(source, destination, &dstFileExists): the copy creates the
\* destination or fails; it never writes a destination that exists. ioOk is
\* whether the copy itself succeeds where the destination is new.
files_copyFile(dir, destination, ioOk) ==
    IF destination \in dir
    THEN [ret |-> FALSE, dstFileExists |-> TRUE, dir |-> dir]
    ELSE IF ioOk
         THEN [ret |-> TRUE, dstFileExists |-> FALSE, dir |-> dir \cup {destination}]
         ELSE [ret |-> FALSE, dstFileExists |-> FALSE, dir |-> dir]

\* the count of writes per file after a copy
Written(w, destination, c) ==
    IF c.ret
    THEN [n \in c.dir |-> IF n = destination
                          THEN (IF n \in DOMAIN w THEN w[n] ELSE 0) + 1
                          ELSE w[n]]
    ELSE w

\* the outcome of a copy as the record of the call names it
CopyOutcome(c) == IF c.ret THEN "ok" ELSE IF c.dstFileExists THEN "exists" ELSE "error"

\* crashFileName after a copy of arch_ptraceSaveData that failed
SaveDataAfterFailedCopy(crashFileName, dstFileExists) ==
    IF dstFileExists THEN EmptyStr ELSE crashFileName

\* a branch that takes a destination that exists for a copy that succeeded
SaveDataCopied_OrExists(c) == c.ret \/ c.dstFileExists

\* the branch arch_ptraceSaveData takes on what files_copyFile returned
SaveDataCopied(c) == c.ret

\* WIFSTOPPED, an important signal, the main worker: arch_ptraceSaveData up to
\* the crashes counter and the white and black list checks behind it
Analyze_StopSaveData(s) ==
    /\ CanTake(s)
    /\ fuzzer[s].mainWorker
    /\ \E stop \in SignalStops(profile, s) :
         LET pid == stop[1]
             sig == stop[2].sig
             in == Answers(build, stop[2], stop[3])
             a == SaveDataAnalysis(hfuzz, build, fuzzer[s], in)
             filter == SaveDataFilter(hfuzz, a.backtrace, a.funcs)
             e == [NewEv(s, "stopSignal", pid, sig, "", "SaveData")
                     EXCEPT !.mode = stop[3], !.siFail = ~in.si.ok,
                            !.si = a.si, !.pc = a.pc,
                            !.regFail = arch_getPC(build, in.regset, in.getregs).sz = 0,
                            !.memFail = a.instr = Str_NOT_MMAPED,
                            !.unwindCnt = Len(in.unwind),
                            !.unwind = in.unwind,
                            !.lr = arch_getLR(build, in.lrRegset, in.lrGetregs).lr,
                            !.lrOk = arch_getLR(build, in.lrRegset, in.lrGetregs).sz # 0,
                            !.hashed = a.ret # "ignoreAddr",
                            !.blHash = a.ret # "ignoreAddr" /\
                                fastArray64Search(hfuzz.blacklist, Len(hfuzz.blacklist),
                                                  a.backtrace) # -1,
                            !.whitelisted = a.ret # "ignoreAddr" /\
                                arch_btContainsSymbol(hfuzz.symbolsWhitelist,
                                                      Len(a.funcs), a.funcs)]
         IN  /\ arch_sigs(sig, build.android).important
             /\ fuzzer' = [fuzzer EXCEPT ![s].backtrace = a.backtrace,
                                         ![s].sanCovCrashesCnt = @ + a.sanCov]
             /\ IF a.ret # "no"
                THEN /\ ev' = [ev EXCEPT ![s] =
                           [e EXCEPT !.ret = a.ret,
                                     !.reqs = <<PtContinue(pid, sig)>>]]
                     /\ UNCHANGED <<hfuzz, pos, loc>>
                ELSE /\ hfuzz' = [hfuzz EXCEPT !.crashesCnt = CrashCounted(@)]
                     /\ ev' = [ev EXCEPT ![s] = [e EXCEPT !.incCrashes = 1,
                                                         !.tot.crashesCnt = @ + 1]]
                     /\ pos' = [pos EXCEPT ![s] =
                           IF filter \in {"blacklistedHash", "blacklistedSymbol"}
                           THEN "sd_blacklisted" ELSE "sd_saveCrash"]
                     /\ loc' = [loc EXCEPT ![s] =
                           [NoLoc EXCEPT !.pid = pid, !.si = a.si,
                               !.sig_addr = a.sig_addr, !.pc = a.pc,
                               !.instr = a.instr, !.funcs = a.funcs,
                               !.funcCnt = Len(a.funcs),
                               !.saveUnique = IF filter = "whitelisted"
                                              THEN FALSE ELSE a.saveUnique,
                               !.filter = filter,
                               !.cont = <<PtContinue(pid, sig)>>]]
    /\ Taken(s)
    /\ UNCHANGED <<build, profile, files, writes, asanLog, tvars, app>>

\* arch_ptraceSaveData: a blacklisted stack hash or symbol is counted and dropped
SaveData_Blacklisted(s) ==
    /\ pos[s] = "sd_blacklisted"
    /\ hfuzz' = [hfuzz EXCEPT !.blCrashesCnt = sync_fetch_and_add(@, 1)]
    /\ ev' = [ev EXCEPT ![s].incBl = @ + 1, ![s].tot.blCrashesCnt = @ + 1, ![s].ret = loc[s].filter,
                        ![s].reqs = @ \o loc[s].cont]
    /\ Returned(s)
    /\ UNCHANGED <<build, profile, fuzzer, files, writes, asanLog, budget, tvars, app>>

\* arch_ptraceSaveData at saveCrash: the two high bits of dynFileIterExpire are
\* cleared and the crash file name is composed
SaveData_SaveCrash(s) ==
    /\ pos[s] = "sd_saveCrash"
    /\ hfuzz' = [hfuzz EXCEPT !.dynFileIterExpire = BitAnd(@, HF_DYNFILE_SUB_MASK)]
    /\ \E localtmstr \in Times :
         fuzzer' = [fuzzer EXCEPT ![s].crashFileName =
                        SaveDataFileName(hfuzz, build, fuzzer[s], loc[s],
                                         loc[s].saveUnique, localtmstr, loc[s].pid)]
    /\ ev' = [ev EXCEPT ![s].subMask = TRUE]
    /\ pos' = [pos EXCEPT ![s] = "sd_copy"]
    /\ UNCHANGED <<build, profile, files, writes, asanLog, loc, budget, tvars, app>>

\* arch_ptraceSaveData: files_copyFile and, where it failed, the return
SaveData_Copy(s) ==
    /\ pos[s] = "sd_copy"
    /\ \E ioOk \in BOOLEAN :
         LET c == files_copyFile(files, fuzzer[s].crashFileName, ioOk)
         IN  /\ files' = c.dir
             /\ writes' = Written(writes, fuzzer[s].crashFileName, c)
             /\ IF SaveDataCopied(c)
                THEN /\ ev' = [ev EXCEPT ![s].copy = CopyOutcome(c),
                                         ![s].copyName = fuzzer[s].crashFileName]
                     /\ pos' = [pos EXCEPT ![s] = "sd_unique"]
                     /\ UNCHANGED <<fuzzer, loc>>
                ELSE /\ fuzzer' = [fuzzer EXCEPT ![s].crashFileName =
                                       SaveDataAfterFailedCopy(@, c.dstFileExists)]
                     /\ ev' = [ev EXCEPT ![s].copy = CopyOutcome(c),
                                         ![s].copyName = fuzzer[s].crashFileName,
                                         ![s].ret = "copyFailed",
                                         ![s].reqs = @ \o loc[s].cont]
                     /\ Returned(s)
    /\ UNCHANGED <<hfuzz, build, profile, asanLog, budget, tvars, app>>

\* arch_ptraceSaveData: the copy succeeded, the unique crashes counter
SaveData_Unique(s) ==
    /\ pos[s] = "sd_unique"
    /\ hfuzz' = [hfuzz EXCEPT !.uniqueCrashesCnt = sync_fetch_and_add(@, 1)]
    /\ ev' = [ev EXCEPT ![s].incUnique = @ + 1,
                        ![s].tot.uniqueCrashesCnt = @ + 1]
    /\ pos' = [pos EXCEPT ![s] = "sd_expire"]
    /\ UNCHANGED <<build, profile, fuzzer, files, writes, asanLog, loc, budget, tvars, app>>

\* arch_ptraceSaveData: dynFileIterExpire is reset, the report is generated
\* (and the maps file written), the handler returns and the tracee is continued
SaveData_Report(s) ==
    /\ pos[s] = "sd_expire"
    /\ hfuzz' = [hfuzz EXCEPT !.dynFileIterExpire = BitAnd(@, 0)]
    /\ fuzzer' = [fuzzer EXCEPT ![s].report =
                      arch_ptraceGenerateReport(build, loc[s].pid, fuzzer[s],
                                                loc[s].funcs, loc[s].si, loc[s].instr)]
    /\ ev' = [ev EXCEPT ![s].report = TRUE, ![s].ret = "saved",
                        ![s].reqs = @ \o loc[s].cont]
    /\ Returned(s)
    /\ UNCHANGED <<build, profile, files, writes, asanLog, budget, tvars, app>>

(* ---------------------------------------------- arch_ptraceExitSaveData *)
\* the exit codes a tracee of the run exits with
ExitCodes(p) ==
    IF p = "exit"
    THEN {HF_ASAN_EXIT_CODE, HF_MSAN_EXIT_CODE, HF_UBSAN_EXIT_CODE, "EXIT_FAILURE"}
    ELSE IF p = "signal" THEN {HF_MSAN_EXIT_CODE, "EXIT_SUCCESS"}
    ELSE {HF_MSAN_EXIT_CODE}

\* a test that takes every exit code for one of a sanitizer
IsSanitizerExit_Any(exitCode) == TRUE

\* a test that leaves out the UBSan exit code
IsSanitizerExit_NoUbsan(exitCode) ==
    exitCode = HF_MSAN_EXIT_CODE \/ exitCode = HF_ASAN_EXIT_CODE

\* the test for a sanitizer exit code of arch_ptraceAnalyze and arch_ptraceEvent
IsSanitizerExit(exitCode) ==
    exitCode = HF_MSAN_EXIT_CODE \/ exitCode = HF_ASAN_EXIT_CODE
        \/ exitCode = HF_UBSAN_EXIT_CODE

\* the threads whose exit the run sees
ExitPids(p, s) == IF p = "exit" THEN PidsOf(s) ELSE {LeaderOf(s)}

\* the crash file name arch_ptraceExitSaveData composes
ExitSaveFileName(h, f, exitCode, pc, backtrace, op, crashAddr, localtmstr) ==
    IF h.flipRateZero /\ h.useVerifier THEN DryRunName(f.origFileName)
    ELSE IF backtrace # 0 /\ h.saveUnique
         THEN UniqueName(arch_sanCodeToStr(exitCode), pc, backtrace, CodeS(op),
                         crashAddr, Str_UNKNOWN)
         ELSE TimeName(arch_sanCodeToStr(exitCode), pc, backtrace, CodeS(op),
                       crashAddr, Str_UNKNOWN, localtmstr)

\* the report arch_ptraceExitSaveData writes to fuzzer->report
ExitSaveReport(pid, f, exitCode, op, crashAddr, funcs, funcCnt) ==
    << <<"ORIG_FNAME", f.origFileName>>,
       <<"FUZZ_FNAME", f.crashFileName>>,
       <<"PID", pid>>,
       <<"EXIT CODE", exitCode, arch_sanCodeToStr(exitCode)>>,
       <<"OPERATION", op>>,
       <<"FAULT ADDRESS", crashAddr>> >>
    \o (IF funcCnt > 0
        THEN << <<"STACK HASH", f.backtrace>>, <<"STACK:">> >>
             \o [i \in 1..funcCnt |->
                    <<"FRAME", funcs[i].pc, funcs[i].func, funcs[i].line>>]
        ELSE <<>>)

\* fuzzer_t after a failed copy if the sanitizer path cleared the file name
\* whatever the reason
ExitSaveAfterFailedCopy_ClearName(f, dstFileExists) ==
    [f EXCEPT !.crashFileName = EmptyStr]

\* fuzzer_t after a copy of arch_ptraceExitSaveData that failed
ExitSaveAfterFailedCopy(f, dstFileExists) ==
    IF dstFileExists THEN [f EXCEPT !.backtrace = 0]
    ELSE [f EXCEPT !.crashFileName = EmptyStr]

\* the branch arch_ptraceExitSaveData takes on what files_copyFile returned
ExitSaveCopied(c) == c.ret

\* a first-hit test that never finds an earlier hit
AlreadyHit_Never(crashFileName) == FALSE

\* "Save only the first hit for each worker": fuzzer->crashFileName[0] != 0
AlreadyHit(crashFileName) == crashFileName # EmptyStr

\* arch_ptraceExitSaveData from its entry to the crashes counter; e is the
\* record of the call, cont what the caller does after it
ExitSaveEnter(s, e, pid, exitCode, cont) ==
    IF AlreadyHit(fuzzer[s].crashFileName)
    THEN /\ ev' = [ev EXCEPT ![s] = [e EXCEPT !.ret = "firstHitOnly", !.reqs = cont]]
         /\ UNCHANGED <<hfuzz, pos, loc>>
    ELSE /\ hfuzz' = [hfuzz EXCEPT !.crashesCnt = CrashCounted(@)]
         /\ ev' = [ev EXCEPT ![s] = [e EXCEPT !.incCrashes = 1,
                                                         !.tot.crashesCnt = @ + 1]]
         /\ pos' = [pos EXCEPT ![s] = "es_subMask"]
         /\ loc' = [loc EXCEPT ![s] =
                [NoLoc EXCEPT !.pid = pid, !.exitCode = exitCode, !.cont = cont]]

\* WIFEXITED: a sanitizer exit code goes to arch_ptraceExitSaveData, no request
\* is made to the tracee
Analyze_Exited(s) ==
    /\ CanTake(s)
    /\ \E pid \in ExitPids(profile, s), exitCode \in ExitCodes(profile) :
         LET e == [NewEv(s, "exited", pid, "0", exitCode, "none")
                     EXCEPT !.exitKind = "exited", !.exitCode = exitCode]
         IN  IF IsSanitizerExit(exitCode)
             THEN ExitSaveEnter(s, [e EXCEPT !.handler = "ExitSaveData"],
                                pid, exitCode, <<>>)
             ELSE /\ ev' = [ev EXCEPT ![s] = [e EXCEPT !.ret = "returned"]]
                  /\ UNCHANGED <<hfuzz, pos, loc>>
    /\ Taken(s)
    /\ UNCHANGED <<build, profile, fuzzer, files, writes, asanLog, tvars, app>>

\* what PTRACE_GETEVENTMSG gives: it fails, or the exit status of the tracee
EventMsgs(p) ==
    {[ok |-> FALSE, kind |-> "none", code |-> ""]}
    \cup {[ok |-> TRUE, kind |-> "exited", code |-> c] : c \in ExitCodes(p)}
    \cup (IF p = "exit"
          THEN {[ok |-> TRUE, kind |-> "signaled", code |-> ""],
                [ok |-> TRUE, kind |-> "other", code |-> ""]}
          ELSE {})

\* the trace events of a stop
TraceEvents == {"PTRACE_EVENT_EXIT", "PTRACE_EVENT_CLONE"}

\* WIFSTOPPED with a trace event: arch_ptraceEvent
Analyze_StopEvent(s) ==
    /\ CanTake(s)
    /\ \E pid \in ExitPids(profile, s), event \in TraceEvents, msg \in EventMsgs(profile) :
         LET e == [NewEv(s, "stopEvent", pid, "SIGTRAP", event, "Event")
                     EXCEPT !.exitKind = IF event = "PTRACE_EVENT_EXIT" /\ msg.ok
                                         THEN msg.kind ELSE "none",
                            !.exitCode = IF event = "PTRACE_EVENT_EXIT" /\ msg.ok
                                         THEN msg.code ELSE ""]
         IN  IF event # "PTRACE_EVENT_EXIT"
             THEN /\ msg.kind = "none"
                  /\ ev' = [ev EXCEPT ![s] =
                        [e EXCEPT !.reqs = <<PtContinue(pid, "0")>>, !.ret = "returned"]]
                  /\ UNCHANGED <<hfuzz, pos, loc>>
             ELSE IF ~msg.ok
                  THEN /\ ev' = [ev EXCEPT ![s] =
                             [e EXCEPT !.msgFail = TRUE, !.ret = "eventMsgFailed"]]
                       /\ UNCHANGED <<hfuzz, pos, loc>>
             ELSE IF msg.kind = "exited" /\ IsSanitizerExit(msg.code)
                  THEN ExitSaveEnter(s, [e EXCEPT !.handler = "ExitSaveData"],
                                     pid, msg.code, <<PtContinue(pid, "0")>>)
             ELSE /\ ev' = [ev EXCEPT ![s] =
                        [e EXCEPT !.reqs = <<PtContinue(pid, "0")>>, !.ret = "returned"]]
                  /\ UNCHANGED <<hfuzz, pos, loc>>
    /\ Taken(s)
    /\ UNCHANGED <<build, profile, fuzzer, files, writes, asanLog, tvars, app>>

\* WIFCONTINUED: nothing is done
Analyze_Continued(s) ==
    /\ CanTake(s)
    /\ ev' = [ev EXCEPT ![s] =
            [NewEv(s, "continued", LeaderOf(s), "0", "", "none") EXCEPT !.ret = "returned"]]
    /\ Taken(s)
    /\ UNCHANGED <<hfuzz, build, profile, fuzzer, files, writes, asanLog, pos, loc, tvars, app>>

\* WIFSIGNALED: nothing is done
Analyze_Signaled(s) ==
    /\ CanTake(s)
    /\ ev' = [ev EXCEPT ![s] =
            [NewEv(s, "signaled", LeaderOf(s), "SIGKILL", "", "none")
               EXCEPT !.ret = "returned"]]
    /\ Taken(s)
    /\ UNCHANGED <<hfuzz, build, profile, fuzzer, files, writes, asanLog, pos, loc, tvars, app>>

\* arch_ptraceExitSaveData: the two high bits of dynFileIterExpire are cleared,
\* an ASan log is parsed (and unlinked) and hashed, the file name is composed
ExitSave_SubMask(s) ==
    /\ pos[s] = "es_subMask"
    /\ hfuzz' = [hfuzz EXCEPT !.dynFileIterExpire = BitAnd(@, HF_DYNFILE_SUB_MASK)]
    /\ LET pid == loc[s].pid
           asan == loc[s].exitCode = HF_ASAN_EXIT_CODE
           r == arch_parseAsanReport(asanLog[pid], pid)
           funcs == IF asan THEN r.funcs ELSE <<>>
           funcCnt == IF asan THEN r.ret ELSE 0
           backtrace == IF asan
                        THEN arch_hashCallstack(build, hfuzz.numMajorFrames,
                                                funcs, funcCnt, FALSE)
                        ELSE fuzzer[s].backtrace
           pc == IF funcCnt > 0 THEN funcs[1].pc ELSE 0
           op == IF asan THEN r.op ELSE "UNKNOWN"
           crashAddr == IF asan THEN r.crashAddr ELSE 0
           log == IF ~asan THEN "none"
                  ELSE IF asanLog[pid].exists THEN "found" ELSE "missing"
       IN  /\ asanLog' = IF asan THEN [asanLog EXCEPT ![pid] = NoLog] ELSE asanLog
           /\ IF asan /\ r.ret = -1
              THEN /\ ev' = [ev EXCEPT ![s].subMask = TRUE, ![s].ret = "noReport",
                                       ![s].log = log,
                                       ![s].reqs = @ \o loc[s].cont]
                   /\ Returned(s)
                   /\ UNCHANGED fuzzer
              ELSE /\ \E localtmstr \in Times :
                        fuzzer' = [fuzzer EXCEPT
                            ![s].backtrace = backtrace,
                            ![s].crashFileName =
                                ExitSaveFileName(hfuzz, fuzzer[s], loc[s].exitCode, pc,
                                                 backtrace, op, crashAddr, localtmstr)]
                   /\ ev' = [ev EXCEPT ![s].subMask = TRUE, ![s].hashed = asan,
                                       ![s].log = log]
                   /\ pos' = [pos EXCEPT ![s] = "es_copy"]
                   /\ loc' = [loc EXCEPT ![s].pc = pc, ![s].op = op,
                                         ![s].crashAddr = crashAddr,
                                         ![s].funcs = funcs, ![s].funcCnt = funcCnt]
    /\ UNCHANGED <<build, profile, files, writes, budget, tvars, app>>

\* arch_ptraceExitSaveData: files_copyFile and, where it failed, the return
ExitSave_Copy(s) ==
    /\ pos[s] = "es_copy"
    /\ \E ioOk \in BOOLEAN :
         LET c == files_copyFile(files, fuzzer[s].crashFileName, ioOk)
         IN  /\ files' = c.dir
             /\ writes' = Written(writes, fuzzer[s].crashFileName, c)
             /\ IF ExitSaveCopied(c)
                THEN /\ ev' = [ev EXCEPT ![s].copy = CopyOutcome(c),
                                         ![s].copyName = fuzzer[s].crashFileName]
                     /\ pos' = [pos EXCEPT ![s] = "es_unique"]
                     /\ UNCHANGED <<fuzzer, loc>>
                ELSE /\ fuzzer' = [fuzzer EXCEPT ![s] =
                                       ExitSaveAfterFailedCopy(@, c.dstFileExists)]
                     /\ ev' = [ev EXCEPT ![s].copy = CopyOutcome(c),
                                         ![s].copyName = fuzzer[s].crashFileName,
                                         ![s].ret = "copyFailed",
                                         ![s].reqs = @ \o loc[s].cont]
                     /\ Returned(s)
    /\ UNCHANGED <<hfuzz, build, profile, asanLog, budget, tvars, app>>

\* arch_ptraceExitSaveData: the copy succeeded, the unique crashes counter
ExitSave_Unique(s) ==
    /\ pos[s] = "es_unique"
    /\ hfuzz' = [hfuzz EXCEPT !.uniqueCrashesCnt = sync_fetch_and_add(@, 1)]
    /\ ev' = [ev EXCEPT ![s].incUnique = @ + 1,
                        ![s].tot.uniqueCrashesCnt = @ + 1]
    /\ pos' = [pos EXCEPT ![s] = "es_expire"]
    /\ UNCHANGED <<build, profile, fuzzer, files, writes, asanLog, loc, budget, tvars, app>>

\* arch_ptraceExitSaveData: dynFileIterExpire is reset, the report is written,
\* the handler returns
ExitSave_Report(s) ==
    /\ pos[s] = "es_expire"
    /\ hfuzz' = [hfuzz EXCEPT !.dynFileIterExpire = BitAnd(@, 0)]
    /\ fuzzer' = [fuzzer EXCEPT ![s].report =
                      ExitSaveReport(loc[s].pid, fuzzer[s], loc[s].exitCode, loc[s].op,
                                     loc[s].crashAddr, loc[s].funcs, loc[s].funcCnt)]
    /\ ev' = [ev EXCEPT ![s].report = TRUE, ![s].ret = "saved",
                        ![s].reqs = @ \o loc[s].cont]
    /\ Returned(s)
    /\ UNCHANGED <<build, profile, files, writes, asanLog, budget, tvars, app>>

(* ------------------------------------------------------ the whole model *)
Next ==
    \E s \in Slots :
        \/ Analyze_StopEvent(s)
        \/ Analyze_StopOther(s)
        \/ Analyze_StopAnalyzeData(s)
        \/ Analyze_StopSaveData(s)
        \/ Analyze_Continued(s)
        \/ Analyze_Exited(s)
        \/ Analyze_Signaled(s)
        \/ SaveData_Blacklisted(s)
        \/ SaveData_SaveCrash(s)
        \/ SaveData_Copy(s)
        \/ SaveData_Unique(s)
        \/ SaveData_Report(s)
        \/ ExitSave_SubMask(s)
        \/ ExitSave_Copy(s)
        \/ ExitSave_Unique(s)
        \/ ExitSave_Report(s)

Spec == Init /\ [][Next]_vars

(* ------------------------------------- arch_ptraceAttach, arch_ptraceDetach *)
\* a run of attach and detach calls on one traced process
InitTrace ==
    /\ profile = "trace"
    /\ build = BuildX86
    /\ hfuzz = BaseConfig
    /\ fuzzer = [s \in Slots |-> NewSlot(TRUE)]
    /\ asanLog = [p \in AllPids |-> NoLog]
    /\ budget = [s \in Slots |-> 0]
    /\ files = {}
    /\ writes = [n \in {} |-> 0]
    /\ pos = [s \in Slots |-> "idle"]
    /\ loc = [s \in Slots |-> NoLoc]
    /\ ev = [s \in Slots |-> NoEv]
    /\ alive = TRUE
    /\ call = [NoCall EXCEPT !.left = MaxCalls]
    /\ app = NoApp

CanCall == call.pc = "idle" /\ call.left > 0

\* arch_ptraceAttach: PTRACE_SEIZE of the pid; false where it fails
Attach_Seize ==
    /\ CanCall
    /\ \E res \in PtraceResults(alive) :
         LET c == [NoCall EXCEPT !.fn = "attach", !.left = call.left - 1,
                       !.log = Logged(<<>>, "PTRACE_SEIZE", TracedPid, res)]
         IN  call' = IF res = "-1" THEN [c EXCEPT !.ret = "false"]
                     ELSE [c EXCEPT !.pc = "at_list"]
    /\ UNCHANGED <<svars, alive, app>>

\* arch_ptraceAttach: arch_listThreads; false where it fails
Attach_List ==
    /\ call.pc = "at_list"
    /\ \E dir \in TaskDirs(alive) :
         LET r == arch_listThreads(call.tasks, MAX_THREAD_IN_TASK, dir)
         IN  call' = IF ~r.ret
                     THEN [call EXCEPT !.tasks = r.tasks, !.count = r.count,
                                       !.listed = "failed", !.ret = "false",
                                       !.pc = "idle"]
                     ELSE [call EXCEPT !.tasks = r.tasks, !.count = r.count,
                                       !.listed = "ok", !.i = 0, !.pc = "at_loop"]
    /\ UNCHANGED <<svars, alive, app>>

\* arch_ptraceAttach: one turn of the loop: PTRACE_SEIZE of a task that is not
\* the pid, whatever it returns; true after the last task
Attach_Loop ==
    /\ call.pc = "at_loop"
    /\ LET task == ArrGet(call.tasks, call.i)
       IN  IF ~MoreTasks(call.tasks, call.i)
           THEN call' = [call EXCEPT !.ret = "true", !.pc = "idle"]
           ELSE IF AttachSkips(task, TracedPid)
           THEN call' = [call EXCEPT !.i = @ + 1]
           ELSE \E res \in PtraceResults(alive) :
                  call' = [call EXCEPT !.log = Logged(@, "PTRACE_SEIZE", task, res),
                                       !.i = @ + 1]
    /\ UNCHANGED <<svars, alive, app>>

\* arch_ptraceDetach: kill(pid, 0); return where the process is gone
Detach_Kill ==
    /\ CanCall
    /\ \E k \in KillResults(alive) :
         LET c == [NoCall EXCEPT !.fn = "detach", !.left = call.left - 1,
                                 !.kill = k.errno]
         IN  call' = IF NoLongerExists(k) THEN [c EXCEPT !.ret = "void"]
                     ELSE [c EXCEPT !.pc = "dt_list"]
    /\ UNCHANGED <<svars, alive, app>>

\* arch_ptraceDetach: arch_listThreads; return where it fails
Detach_List ==
    /\ call.pc = "dt_list"
    /\ \E dir \in TaskDirs(alive) :
         LET r == arch_listThreads(call.tasks, MAX_THREAD_IN_TASK, dir)
         IN  call' = IF ~r.ret
                     THEN [call EXCEPT !.tasks = r.tasks, !.count = r.count,
                                       !.listed = "failed", !.ret = "void",
                                       !.pc = "idle"]
                     ELSE [call EXCEPT !.tasks = r.tasks, !.count = r.count,
                                       !.listed = "ok", !.i = 0,
                                       !.pc = "dt_interrupt"]
    /\ UNCHANGED <<svars, alive, app>>

\* arch_ptraceDetach: the loop test and PTRACE_INTERRUPT of the task
Detach_Interrupt ==
    /\ call.pc = "dt_interrupt"
    /\ IF ~MoreTasks(call.tasks, call.i)
       THEN call' = [call EXCEPT !.ret = "void", !.pc = "idle"]
       ELSE \E res \in PtraceResults(alive) :
              call' = [call EXCEPT
                          !.log = Logged(@, "PTRACE_INTERRUPT",
                                         ArrGet(call.tasks, call.i), res),
                          !.eintr = 0, !.waitRet = "none", !.pc = "dt_wait"]
    /\ UNCHANGED <<svars, alive, app>>

\* arch_ptraceWaitForPidStop called by arch_ptraceDetach: one wait4; its
\* return value is not looked at by arch_ptraceDetach
Detach_Wait ==
    /\ call.pc = "dt_wait"
    /\ LET tid == ArrGet(call.tasks, call.i)
       IN  \E w \in WaitResults(alive, tid, call.eintr) :
             LET res == IF w.ret = -1 THEN w.errno ELSE w.status
                 log == Logged(call.log, "wait4", tid, res)
             IN  call' = IF WaitRestarts(w)
                         THEN [call EXCEPT !.log = log,
                                   !.eintr = IF w.errno = "EINTR" THEN @ + 1 ELSE @]
                         ELSE [call EXCEPT !.log = log,
                                           !.waitRet = WaitForPidStopRet(w),
                                           !.pc = "dt_detach"]
    /\ UNCHANGED <<svars, alive, app>>

\* arch_ptraceDetach: PTRACE_DETACH of the task, the next task
Detach_Detach ==
    /\ call.pc = "dt_detach"
    /\ \E res \in PtraceResults(alive) :
         call' = [call EXCEPT
                     !.log = Logged(@, "PTRACE_DETACH", ArrGet(call.tasks, call.i), res),
                     !.i = @ + 1, !.pc = "dt_interrupt"]
    /\ UNCHANGED <<svars, alive, app>>

\* the traced process ends
Tracee_Exits ==
    /\ alive
    /\ alive' = FALSE
    /\ UNCHANGED <<svars, call, app>>

\* the steps of a call that has begun
TraceSteps ==
    \/ Attach_List
    \/ Attach_Loop
    \/ Detach_List
    \/ Detach_Interrupt
    \/ Detach_Wait
    \/ Detach_Detach

NextTrace ==
    \/ Attach_Seize
    \/ Attach_List
    \/ Attach_Loop
    \/ Detach_Kill
    \/ Detach_List
    \/ Detach_Interrupt
    \/ Detach_Wait
    \/ Detach_Detach
    \/ Tracee_Exits

SpecTrace == InitTrace /\ [][NextTrace]_vars

\* a call that has begun goes on: the fuzzer runs, and wait4 returns because
\* the task it waits for stops or is gone
FairSpecTrace == SpecTrace /\ WF_vars(TraceSteps)

(* --------------------------------------------- arch_hashCallstack by itself *)
MaxFrames == 3

\* the program counters of the frames hashed: two that differ in the last
\* digit, one with more than three digits
HashPcs == {1, 2, 4660}

\* the stacks hashed
HashStacks ==
    UNION { [1..n -> {Frame(pcOf) : pcOf \in HashPcs}] : n \in 0..MaxFrames }

\* the first k frames of a stack, or all where it has fewer
FirstFrames(funcs, k) == SubSeq(funcs, 1, IF Len(funcs) < k THEN Len(funcs) ELSE k)

\* arch_hashCallstack is given a stack, numMajorFrames and enableMasking, with
\* some value in fuzzer->backtrace
InitHash ==
    /\ profile = "hash"
    /\ build = BuildX86
    /\ hfuzz = BaseConfig
    /\ fuzzer = [s \in Slots |-> NewSlot(TRUE)]
    /\ asanLog = [p \in AllPids |-> NoLog]
    /\ budget = [s \in Slots |-> 0]
    /\ files = {}
    /\ writes = [n \in {} |-> 0]
    /\ pos = [s \in Slots |-> "idle"]
    /\ loc = [s \in Slots |-> NoLoc]
    /\ ev = [s \in Slots |-> NoEv]
    /\ alive = TRUE
    /\ call = NoCall
    /\ \E b \in Builds, k \in {1, 2, NMAJORFRAMES}, funcs \in HashStacks,
          masking \in BOOLEAN, old \in {0, HF_SINGLE_FRAME_MASK + 1} :
         app = [fn |-> "arch_hashCallstack", build |-> b, numMajorFrames |-> k,
                funcs |-> funcs, enableMasking |-> masking, backtrace |-> old,
                step |-> 0, funcs2 |-> <<>>, backtrace2 |-> old]

\* arch_hashCallstack(hfuzz, fuzzer, funcs, funcCnt, enableMasking)
Hash_Apply ==
    /\ app.fn = "arch_hashCallstack" /\ app.step = 0
    /\ app' = [app EXCEPT
                 !.backtrace = arch_hashCallstack(app.build, app.numMajorFrames,
                                                  app.funcs, Len(app.funcs),
                                                  app.enableMasking),
                 !.step = 1]
    /\ UNCHANGED <<svars, tvars>>

\* arch_hashCallstack of another stack with the same first numMajorFrames
\* frames: frames after them were added, removed, changed or put in another
\* order
Hash_ApplyOtherTail ==
    /\ app.fn = "arch_hashCallstack" /\ app.step = 1
    /\ \E funcs2 \in HashStacks :
         /\ funcs2 # app.funcs
         /\ FirstFrames(funcs2, app.numMajorFrames)
              = FirstFrames(app.funcs, app.numMajorFrames)
         /\ app' = [app EXCEPT
                      !.funcs2 = funcs2,
                      !.backtrace2 = arch_hashCallstack(app.build, app.numMajorFrames,
                                                        funcs2, Len(funcs2),
                                                        app.enableMasking),
                      !.step = 2]
    /\ UNCHANGED <<svars, tvars>>

NextHash ==
    \/ Hash_Apply
    \/ Hash_ApplyOtherTail

SpecHash == InitHash /\ [][NextHash]_vars

(* ------------------------------------------- arch_getInstrStr by itself *)
\* the program's own variables while one function of the file is applied
InitPure(name) ==
    /\ profile = name
    /\ build = BuildX86
    /\ hfuzz = BaseConfig
    /\ fuzzer = [s \in Slots |-> NewSlot(TRUE)]
    /\ asanLog = [p \in AllPids |-> NoLog]
    /\ budget = [s \in Slots |-> 0]
    /\ files = {}
    /\ writes = [n \in {} |-> 0]
    /\ pos = [s \in Slots |-> "idle"]
    /\ loc = [s \in Slots |-> NoLoc]
    /\ ev = [s \in Slots |-> NoEv]
    /\ alive = TRUE
    /\ call = NoCall

\* characters a disassembler may put into instr, and the texts tried
InstrChars == {"a", "_", "[", "/", "\\", " ", "\t", "\\001", "\\200"}
InstrTexts == {<<c>> : c \in InstrChars} \cup {<<c, d>> : c, d \in InstrChars}

\* what the register requests give
RegAnswers ==
    { NoRegs } \cup
    { [NoRegs EXCEPT !.ok = TRUE, !.len = l, !.pc = p] :
        l \in {"S64", "S??"}, p \in {0, 1} }

\* the C library: one whose ptrace() clears errno on a successful PT_READ_D
\* with errno clear or set on entry, and one that leaves errno as it is
Libcs == [errno0 : BOOLEAN, clears : BOOLEAN]

InitInstr ==
    /\ InitPure("instr")
    /\ \E b \in Builds, regset \in RegAnswers, getregs \in {NoRegs, [NoRegs EXCEPT !.ok = TRUE, !.pc = 1]},
          readv \in {-1, 3}, full \in BOOLEAN, peeksOk \in 0..1,
          libc \in {GlibcPeek, [errno0 |-> TRUE, clears |-> FALSE]},
          disasm \in {[ok |-> FALSE, text |-> <<>>]}
                       \cup {[ok |-> TRUE, text |-> t] : t \in InstrTexts} :
         app = [fn |-> "arch_getInstrStr", build |-> b, regset |-> regset,
                getregs |-> getregs,
                readv |-> IF full THEN MAX_INSTR_SZ(b) ELSE readv,
                peeksOk |-> peeksOk, libc |-> libc, disasm |-> disasm,
                step |-> 0, pc |-> 0, instr |-> <<>>]

\* arch_getInstrStr(pid, &pc, instr)
Instr_Apply ==
    /\ app.fn = "arch_getInstrStr" /\ app.step = 0
    /\ LET gi == arch_getInstrStr(app.build, app.regset, app.getregs, app.readv,
                                  app.peeksOk, app.libc, app.disasm)
       IN  app' = [app EXCEPT !.pc = gi.pc, !.instr = gi.instr, !.step = 1]
    /\ UNCHANGED <<svars, tvars>>

NextInstr == Instr_Apply

SpecInstr == InitInstr /\ [][NextInstr]_vars

(* --------------------------------------- arch_parseAsanReport by itself *)
\* the pid whose log is parsed
AsanPid == LeaderOf(1)

\* the lines of the logs tried: headers of the pid with and without an
\* address and of another pid, an empty line, lines of text that hold the
\* text cAddr points to or not and start with READ, with WRITE or with
\* neither, a short line, and the frames #0, #1 and #10 with and without
\* leading spaces
AsanLines ==
    { HdrLine(AsanPid, TRUE, 3), HdrLine(AsanPid, FALSE, 0),
      HdrLine(AsanPid + 1, TRUE, 3), BlankLine, [LogLine EXCEPT !.short = TRUE] }
    \cup { [LogLine EXCEPT !.startsRead = (w = "READ"), !.startsWrite = (w = "WRITE"),
                           !.findsAddr = f] :
             w \in {"READ", "WRITE", "other"}, f \in BOOLEAN }
    \cup { [FrameLine(i, i + 1, "lib", 5) EXCEPT !.indent = ind] :
             i \in {0, 1, 10}, ind \in BOOLEAN }

\* logs of up to MaxLines lines, the longest ones starting with the header
MaxLines == 4
AsanLogs ==
    { NoLog } \cup
    { [exists |-> TRUE, lines |-> t] :
        t \in UNION { [1..n -> AsanLines] : n \in 0..(MaxLines - 1) } } \cup
    { [exists |-> TRUE, lines |-> <<HdrLine(AsanPid, TRUE, 3)>> \o t] :
        t \in [1..(MaxLines - 1) -> AsanLines] }

NoOutcome == [returned |-> FALSE, unlinked |-> FALSE,
              res |-> [ret |-> 0, funcs |-> <<>>, crashAddr |-> 0, op |-> "UNKNOWN",
                       moved |-> FALSE]]

InitAsan ==
    /\ InitPure("asan")
    /\ \E log \in AsanLogs :
         app = [fn |-> "arch_parseAsanReport", pid |-> AsanPid, log |-> log,
                step |-> 0, out |-> NoOutcome]

\* arch_parseAsanReport(hfuzz, pid, funcs, &crashAddr, &op) with op "UNKNOWN"
Asan_Apply ==
    /\ app.fn = "arch_parseAsanReport" /\ app.step = 0
    /\ \E o \in ParseOutcomes(app.log, app.pid) :
         app' = [app EXCEPT !.out = o, !.step = 1]
    /\ UNCHANGED <<svars, tvars>>

NextAsan == Asan_Apply

SpecAsan == InitAsan /\ [][NextAsan]_vars

(* -------------------------------------------- arch_getProcMem by itself *)
\* the lengths asked for: MAX_INSTR_SZ of the builds and one that is not a
\* multiple of sizeof(long)
MemLens == {MAX_INSTR_SZ(b) : b \in Builds} \cup {20}

\* the most PT_READ_D requests that succeed
MaxPeeks == 3

InitProcMem ==
    /\ InitPure("procmem")
    /\ \E b \in Builds, len \in MemLens, peeksOk \in 0..MaxPeeks, libc \in Libcs :
         \E readv \in (-1)..len :
           app = [fn |-> "arch_getProcMem", build |-> b, len |-> len,
                  readv |-> readv, peeksOk |-> peeksOk, libc |-> libc, step |-> 0,
                  out |-> [ret |-> 0, written |-> 0, read |-> 0]]

\* arch_getProcMem(pid, buf, len, pc)
ProcMem_Apply ==
    /\ app.fn = "arch_getProcMem" /\ app.step = 0
    /\ app' = [app EXCEPT
                 !.out = ProcMemRun(app.build, app.len, app.readv, app.peeksOk,
                                    app.libc),
                 !.step = 1]
    /\ UNCHANGED <<svars, tvars>>

NextProcMem == ProcMem_Apply

SpecProcMem == InitProcMem /\ [][NextProcMem]_vars

(* ------------------------------------------- arch_listThreads by itself *)
\* the largest thrSz tried; the caller's array has thrSz + 1 entries
MaxThrSz == 3

\* the task ids the directory may list
ListTids == {3, 7, 12, 40}

\* the directories tried: not opened; the entries "." and ".." and some of
\* the task ids, read to the end or failing at one of the reads
ListDirs ==
    {[open |-> FALSE, errAt |-> 0, entries |-> <<>>]} \cup
    UNION {{[open |-> TRUE, errAt |-> e, entries |-> TaskNames(T)] :
              e \in 0..Len(TaskNames(T))} : T \in SUBSET ListTids}

InitList ==
    /\ InitPure("list")
    /\ \E thrSz \in 1..MaxThrSz, dir \in ListDirs :
         app = [fn |-> "arch_listThreads", thrSz |-> thrSz, dir |-> dir,
                step |-> 0,
                out |-> [ret |-> FALSE, tasks |-> NewArray(thrSz + 1),
                         count |-> 0]]

\* arch_listThreads(tasks, thrSz, pid) on an array of thrSz + 1 zeros
List_Apply ==
    /\ app.fn = "arch_listThreads" /\ app.step = 0
    /\ app' = [app EXCEPT
                 !.out = arch_listThreads(NewArray(app.thrSz + 1), app.thrSz,
                                          app.dir),
                 !.step = 1]
    /\ UNCHANGED <<svars, tvars>>

NextList == List_Apply

SpecList == InitList /\ [][NextList]_vars

(* ------------------------------------------------------------ properties *)
\* worker s has handled a status and is back in its wait loop
Done(s) == pos[s] = "idle" /\ ev[s].kind # "none"

\* the status worker s handles, or handled last, is a stop by a signal without
\* a trace event
IsSignalStop(s) == ev[s].kind = "stopSignal"

\* C1: a stop by a signal without a trace event runs the crash analysis if and
\* only if the signal is important in arch_sigs, arch_ptraceSaveData on the
\* main worker and arch_ptraceAnalyzeData on any other; no request is made
\* while the analysis runs, and the call ends with exactly one PT_CONTINUE for
\* the stopped pid that forwards the stop signal.
C1_SignalStopAnalyzedAndContinued ==
    \A s \in Slots :
        IsSignalStop(s) =>
            /\ (ev[s].handler # "none") <=> arch_sigs(ev[s].sig, build.android).important
            /\ ev[s].handler \in {"none", IF fuzzer[s].mainWorker
                                          THEN "SaveData" ELSE "AnalyzeData"}
            /\ pos[s] # "idle" => ev[s].reqs = <<>>
            /\ pos[s] = "idle" =>
                   ev[s].reqs = <<[req |-> "PT_CONTINUE", pid |-> ev[s].pid,
                                   data |-> ev[s].sig]>>

\* C1 happens: a crash was saved by the main worker and the tracee continued
\* with the signal
C1_Witness ==
    \E s \in Slots :
        /\ Done(s) /\ IsSignalStop(s)
        /\ ev[s].handler = "SaveData" /\ ev[s].ret = "saved"
        /\ ev[s].sig = "SIGSEGV" /\ Len(ev[s].reqs) = 1

\* C2 as stated: a stop with a trace event, whatever the event and whatever
\* PTRACE_GETEVENTMSG gives, ends with a PT_CONTINUE for the stopped pid.
C2_EventStopContinued ==
    \A s \in Slots :
        (Done(s) /\ ev[s].kind = "stopEvent") =>
            \E i \in 1..Len(ev[s].reqs) :
                ev[s].reqs[i].req = "PT_CONTINUE" /\ ev[s].reqs[i].pid = ev[s].pid

\* the crash worker s handles on the signal path got a stack hash, the hash is
\* in the stack hash blacklist
HashBlacklisted(s) ==
    IsSignalStop(s) /\ ev[s].handler = "SaveData" /\ ev[s].hashed /\ ev[s].blHash

\* C3 as stated: a crash of the main worker whose stack hash is in the
\* blacklist copies no file, adds exactly 1 to blCrashesCnt and leaves
\* uniqueCrashesCnt as it is.
C3_BlacklistedHashNeverCopied ==
    \A s \in Slots :
        (Done(s) /\ HashBlacklisted(s)) =>
            ev[s].copy # "ok" /\ ev[s].incBl = 1 /\ ev[s].incUnique = 0

\* C3, amended: the same for a crash that is not dropped as the same crash
\* again and has no whitelisted symbol in its frames; until the call returns
\* nothing is copied, and when it has returned blCrashesCnt is one more.
C3_BlacklistedHashNeverCopiedUnlessWhitelisted ==
    \A s \in Slots :
        (HashBlacklisted(s) /\ ~ev[s].whitelisted /\ ev[s].ret # "sameCrash") =>
            /\ ev[s].copy = "none" /\ ev[s].incUnique = 0 /\ ~ev[s].subMask
            /\ pos[s] \in {"idle", "sd_blacklisted"}
            /\ pos[s] = "idle" => ev[s].incBl = 1 /\ ev[s].ret = "blacklistedHash"

\* C3 happens: a crash with a blacklisted hash was counted and dropped
C3_Witness ==
    \E s \in Slots :
        /\ Done(s) /\ HashBlacklisted(s) /\ ~ev[s].whitelisted
        /\ ev[s].ret = "blacklistedHash" /\ hfuzz.blCrashesCnt = 1 /\ files = {}

\* worker s has handled two crashes on the signal path, one right after the
\* other, and both got the same stack hash
TwoCrashesSameHash(s) ==
    /\ Done(s) /\ IsSignalStop(s)
    /\ ev[s].handler = "SaveData" /\ ev[s].hashed
    /\ ev[s].prev.handler = "SaveData" /\ ev[s].prev.hashed
    /\ ev[s].prev.backtrace = fuzzer[s].backtrace

\* C4 as stated: two consecutive crashes of a slot with the same stack hash
\* give exactly one saved crash file.
C4_ExactlyOneSaved ==
    \A s \in Slots :
        TwoCrashesSameHash(s) =>
            (ev[s].prev.copy = "ok") # (ev[s].copy = "ok")

\* C4, amended: two consecutive crashes of a slot with the same stack hash
\* give at most one saved crash file, and when the first one was saved the
\* second is dropped before anything is copied.
C4_AtMostOneSaved ==
    \A s \in Slots :
        TwoCrashesSameHash(s) =>
            /\ ~(ev[s].prev.copy = "ok" /\ ev[s].copy = "ok")
            /\ ev[s].prev.copy = "ok" =>
                   ev[s].copy = "none" /\ ev[s].ret = "sameCrash"

\* C4 happens: the first crash was saved, the second has the same hash
C4_Witness ==
    \E s \in Slots :
        /\ TwoCrashesSameHash(s) /\ ev[s].prev.copy = "ok"
        /\ ev[s].ret = "sameCrash" /\ Cardinality(files) = 1

\* worker s handles a signal crash with crashFileName set, and the hash it
\* computed is the one the slot held before
SameCrashAgain(s) ==
    /\ IsSignalStop(s) /\ ev[s].handler = "SaveData" /\ ev[s].hashed
    /\ ev[s].pre.crashFileName # EmptyStr
    /\ ev[s].pre.backtrace = fuzzer[s].backtrace

\* what the call of worker s has done to the counters of honggfuzz_t, the work
\* directory and the report: nothing
NothingCounted(s) ==
    /\ ev[s].incCrashes = 0 /\ ev[s].incUnique = 0 /\ ev[s].incBl = 0
    /\ ~ev[s].subMask /\ ev[s].copy = "none" /\ ~ev[s].report
    /\ fuzzer[s].crashFileName = ev[s].pre.crashFileName
    /\ fuzzer[s].report = ev[s].pre.report

\* C5 as stated: the same crash again is dropped before crashesCnt is
\* incremented, and no counter changes.
C5_SameCrashNoCounterChanges ==
    \A s \in Slots :
        SameCrashAgain(s) =>
            /\ pos[s] = "idle" /\ ev[s].ret = "sameCrash"
            /\ NothingCounted(s)
            /\ fuzzer[s].sanCovCrashesCnt = ev[s].pre.sanCov

\* C5, amended: the same crash again is dropped before crashesCnt is
\* incremented: none of crashesCnt, uniqueCrashesCnt, blCrashesCnt and
\* dynFileIterExpire changes, no list is checked and nothing is copied; only
\* the slot's sanCovCnts.crashesCnt is one more when useSanCov is set.
C5_SameCrashNoSharedCounterChanges ==
    \A s \in Slots :
        SameCrashAgain(s) =>
            /\ pos[s] = "idle" /\ ev[s].ret = "sameCrash"
            /\ NothingCounted(s)
            /\ fuzzer[s].sanCovCrashesCnt =
                   ev[s].pre.sanCov + (IF hfuzz.useSanCov THEN 1 ELSE 0)

\* C5 happens: a second identical crash leaves crashesCnt at 1 and one file
C5_Witness ==
    \E s \in Slots :
        /\ Done(s) /\ SameCrashAgain(s) /\ ev[s].ret = "sameCrash"
        /\ hfuzz.crashesCnt = 1 /\ Cardinality(files) = 1
        /\ ev[s].prev.copy = "ok"

\* the copy of the call of worker s found that the destination exists
CopyFoundFile(s) == Done(s) /\ ev[s].copy = "exists"

\* C6 as stated: on both paths a copy that finds the destination existing
\* clears crashFileName, leaves uniqueCrashesCnt and generates no report.
C6_ExistsClearsName ==
    \A s \in Slots :
        CopyFoundFile(s) =>
            /\ fuzzer[s].crashFileName = EmptyStr
            /\ ev[s].incUnique = 0 /\ ~ev[s].report

\* C6, amended: on both paths a copy that finds the destination existing
\* leaves uniqueCrashesCnt and the report as they are; arch_ptraceSaveData
\* clears crashFileName, arch_ptraceExitSaveData keeps crashFileName and
\* clears the stack hash.
C6_ExistsClearsNameOrHash ==
    \A s \in Slots :
        CopyFoundFile(s) =>
            /\ ev[s].incUnique = 0 /\ ~ev[s].report
            /\ fuzzer[s].report = ev[s].pre.report
            /\ ev[s].handler \in {"SaveData", "ExitSaveData"}
            /\ ev[s].handler = "SaveData" => fuzzer[s].crashFileName = EmptyStr
            /\ ev[s].handler = "ExitSaveData" =>
                   /\ fuzzer[s].crashFileName = ev[s].copyName
                   /\ fuzzer[s].crashFileName # EmptyStr
                   /\ fuzzer[s].backtrace = 0

\* C6 happens: the sanitizer path found the crash file of another worker
C6_Witness ==
    \E s \in Slots :
        /\ CopyFoundFile(s) /\ ev[s].handler = "ExitSaveData"
        /\ ev[s].copyName \in files /\ hfuzz.uniqueCrashesCnt = 1

\* C7 as stated: on both paths a copy that fails though the destination does
\* not exist clears crashFileName, leaves uniqueCrashesCnt and generates no
\* report.
C7_IOErrorClearsName ==
    \A s \in Slots :
        (Done(s) /\ ev[s].copy = "error") =>
            /\ fuzzer[s].crashFileName = EmptyStr
            /\ ev[s].incUnique = 0 /\ ~ev[s].report

\* the workers whose copy to the name succeeded
Winners(name) == {s \in Slots : ev[s].copyName = name /\ ev[s].copy = "ok"}

C9_RegReadFailedNothingSaved ==
    \A s \in Slots :
        (Done(s) /\ IsSignalStop(s) /\ ev[s].handler # "none"
                 /\ ev[s].mode.regs = "fail") =>
            /\ ev[s].copy # "ok" /\ ~ev[s].report
            /\ Len(ev[s].reqs) = 1

\* C10 as stated: a signal stop at which PT_GETSIGINFO, the register requests,
\* the read of the text and the unwinder all fail completes, the tracee is
\* continued, and no crash file is saved.
C10_TraceeGoneNothingSaved ==
    \A s \in Slots :
        (IsSignalStop(s) /\ ev[s].handler # "none" /\ ev[s].mode = Gone) =>
            /\ ev[s].copy # "ok"
            /\ pos[s] = "idle" => Len(ev[s].reqs) = 1

\* the signal crash worker s handles on the main worker is not from the user
\* and its si_addr is below ignoreAddr
BelowIgnoreAddr(s) ==
    /\ IsSignalStop(s) /\ ev[s].handler = "SaveData"
    /\ ev[s].si.si_code > 0 /\ ev[s].si.si_addr < hfuzz.ignoreAddr

\* the call of worker s returned at the ignoreAddr test and changed nothing
DroppedUntouched(s) ==
    /\ pos[s] = "idle" /\ ev[s].ret = "ignoreAddr"
    /\ NothingCounted(s)
    /\ fuzzer[s].backtrace = ev[s].pre.backtrace
    /\ fuzzer[s].sanCovCrashesCnt = ev[s].pre.sanCov

\* C11 as stated: a signal crash of the main worker that is not from the user
\* and whose si_addr is below ignoreAddr, with no other precondition, is
\* dropped and nothing changes.
C11_BelowIgnoreAddrDropped ==
    \A s \in Slots : BelowIgnoreAddr(s) => DroppedUntouched(s)

\* C11, amended: the same where the pc that was read is not 0: no counter
\* changes, nothing is copied, backtrace and crashFileName stay as they were.
C11_BelowIgnoreAddrDroppedIfPc ==
    \A s \in Slots : (BelowIgnoreAddr(s) /\ ev[s].pc # 0) => DroppedUntouched(s)

\* C11 happens: a fault at a low address with a pc was dropped after an
\* earlier crash had been saved
C11_Witness ==
    \E s \in Slots :
        /\ BelowIgnoreAddr(s) /\ ev[s].pc # 0 /\ DroppedUntouched(s)
        /\ ev[s].prev.copy = "ok" /\ fuzzer[s].crashFileName # EmptyStr

\* the three exit codes of the sanitizers
SanitizerExitCodes == {HF_MSAN_EXIT_CODE, HF_ASAN_EXIT_CODE, HF_UBSAN_EXIT_CODE}

\* C12: arch_ptraceExitSaveData is called exactly for an exit code of a
\* sanitizer, be it the exit status in the message of an EXIT trace event or
\* the exit status of an exited tracee; never for another exit code, a
\* termination by signal, or any other status.
C12_ExitSaveIffSanitizerExit ==
    \A s \in Slots :
        /\ ev[s].handler = "ExitSaveData"
             <=> (ev[s].exitKind = "exited" /\ ev[s].exitCode \in SanitizerExitCodes)
        /\ ev[s].exitKind # "none"
             => \/ ev[s].kind = "exited"
                \/ ev[s].kind = "stopEvent" /\ ev[s].code = "PTRACE_EVENT_EXIT"
        /\ ev[s].kind = "exited" => ev[s].exitKind = "exited"

\* C12 happens: an EXIT trace event with the UBSan exit code was saved after a
\* plain exit with another code was not
C12_Witness ==
    \E s \in Slots :
        /\ Done(s) /\ ev[s].kind = "stopEvent" /\ ev[s].handler = "ExitSaveData"
        /\ ev[s].exitCode = HF_UBSAN_EXIT_CODE /\ ev[s].copy = "ok"
        /\ ev[s].prev.handler = "none" /\ ev[s].prev.ret = "returned"

\* the sanitizer save path of worker s looked for the ASan log of the pid and
\* there was none
AsanLogMissing(s) == ev[s].handler = "ExitSaveData" /\ ev[s].log = "missing"

\* C13: where the ASan log of the reporting pid does not exist, the sanitizer
\* save path copies nothing and leaves crashFileName empty; the next sanitizer
\* exit handled for the slot is then not taken for a second hit, and where its
\* log exists the log is parsed and hashed and the copy is made.
C13_MissingLogLeavesSlotOpen ==
    \A s \in Slots :
        /\ AsanLogMissing(s)
             => /\ ev[s].copy = "none" /\ ev[s].incUnique = 0 /\ ~ev[s].report
                /\ fuzzer[s].crashFileName = EmptyStr
                /\ fuzzer[s].backtrace = ev[s].pre.backtrace
                /\ pos[s] = "idle"
        /\ (ev[s].handler = "ExitSaveData" /\ ev[s].prev.ret = "noReport")
             => /\ ev[s].ret # "firstHitOnly"
                /\ (Done(s) /\ ev[s].log = "found")
                     => /\ ev[s].hashed /\ ev[s].copy # "none"
                        /\ ev[s].copy = "ok"
                             => /\ fuzzer[s].crashFileName = ev[s].copyName
                                /\ ev[s].report

\* C13 happens: a thread without a log exited with the ASan code, then the
\* thread whose log exists did, and its crash was saved
C13_Witness ==
    \E s \in Slots :
        /\ Done(s) /\ ev[s].handler = "ExitSaveData" /\ ev[s].prev.ret = "noReport"
        /\ ev[s].pid = LeaderOf(s) /\ ev[s].log = "found" /\ ev[s].unwindCnt = 0
        /\ ev[s].hashed /\ ev[s].copy = "ok" /\ ev[s].ret = "saved"
        /\ fuzzer[s].backtrace # 0

\* the copy of the crash file of the call of worker s succeeded and the call
\* has returned
CopySucceeded(s) ==
    /\ Done(s) /\ ev[s].handler \in {"SaveData", "ExitSaveData"}
    /\ ev[s].copy = "ok"

\* C14: after a successful copy, on the signal path and on the sanitizer path,
\* uniqueCrashesCnt was incremented once by the call, dynFileIterExpire is 0,
\* crashFileName holds the composed name and the report was generated; a
\* first save of a SIGSEGV, with no other worker active, leaves crashesCnt and
\* uniqueCrashesCnt at 1.
C14_SuccessfulCopyAccounted ==
    \A s \in Slots :
        CopySucceeded(s)
          => /\ ev[s].incUnique = 1
             /\ hfuzz.uniqueCrashesCnt >= ev[s].pre.uniqueCrashesCnt + 1
             /\ hfuzz.dynFileIterExpire = 0
             /\ fuzzer[s].crashFileName = ev[s].copyName
             /\ ev[s].copyName # EmptyStr
             /\ ev[s].copyName \in files
             /\ ev[s].report /\ fuzzer[s].report # <<>>
             /\ ( /\ ev[s].sig = "SIGSEGV"
                  /\ ev[s].pre.crashesCnt = 0 /\ ev[s].pre.uniqueCrashesCnt = 0
                  /\ \A t \in Slots \ {s} : ev[t].kind = "none" )
                  => hfuzz.crashesCnt = 1 /\ hfuzz.uniqueCrashesCnt = 1

\* C14 happens: a first SIGSEGV was saved under its unique name
C14_Witness ==
    \E s \in Slots :
        /\ CopySucceeded(s) /\ ev[s].handler = "SaveData" /\ ev[s].sig = "SIGSEGV"
        /\ ev[s].pre.crashesCnt = 0 /\ hfuzz.saveUnique /\ ~ev[s].whitelisted
        /\ hfuzz.crashesCnt = 1 /\ hfuzz.uniqueCrashesCnt = 1
        /\ \A t \in Slots \ {s} : ev[t].kind = "none"

\* the sum of f over S
RECURSIVE SumOf(_, _)
SumOf(f, S) ==
    IF S = {} THEN 0
    ELSE LET x == CHOOSE y \in S : TRUE
         IN  f[x] + SumOf(f, S \ {x})

\* the increments the workers have issued so far, per counter
IssuedCrashes == SumOf([s \in Slots |-> ev[s].tot.crashesCnt], Slots)
IssuedUnique == SumOf([s \in Slots |-> ev[s].tot.uniqueCrashesCnt], Slots)
IssuedBlacklisted == SumOf([s \in Slots |-> ev[s].tot.blCrashesCnt], Slots)

\* every counter holds the number of increments issued
NoIncrementLost ==
    /\ hfuzz.crashesCnt = IssuedCrashes
    /\ hfuzz.uniqueCrashesCnt = IssuedUnique
    /\ hfuzz.blCrashesCnt = IssuedBlacklisted

\* no step decreases a counter
CountersGrow ==
    /\ hfuzz'.crashesCnt >= hfuzz.crashesCnt
    /\ hfuzz'.uniqueCrashesCnt >= hfuzz.uniqueCrashesCnt
    /\ hfuzz'.blCrashesCnt >= hfuzz.blCrashesCnt

\* C15: however the steps of the workers interleave, crashesCnt,
\* uniqueCrashesCnt and blCrashesCnt each hold the number of increments issued
\* and no step decreases one of them.
C15_CountersExactAndMonotonic == [](NoIncrementLost) /\ [][CountersGrow]_vars

\* C15 happens: two workers have each counted and saved a crash, the second
\* entering its handler while the first was inside its own
C15_Witness ==
    \E s, t \in Slots :
        /\ s # t /\ profile = "par" /\ Done(s) /\ Done(t)
        /\ ev[s].incCrashes = 1 /\ ev[t].incCrashes = 1
        /\ ev[s].pre.crashesCnt = 0
        /\ ev[t].pre.crashesCnt = 1 /\ ev[t].pre.uniqueCrashesCnt = 0
        /\ ev[s].incUnique = 1 /\ ev[t].incUnique = 1
        /\ hfuzz.crashesCnt = 2 /\ hfuzz.uniqueCrashesCnt = 2

\* the call of worker s came to the whitelist test with a frame whose symbol
\* is whitelisted
WhitelistMatched(s) ==
    /\ IsSignalStop(s) /\ ev[s].handler = "SaveData"
    /\ ev[s].whitelisted /\ ev[s].incCrashes = 1

\* no blacklist counted the crash of worker s and the crash came to the copy
SkippedBlacklists(s) ==
    /\ ev[s].incBl = 0
    /\ ev[s].ret \notin {"blacklistedHash", "blacklistedSymbol"}
    /\ pos[s] # "sd_blacklisted"
    /\ pos[s] = "idle" => ev[s].subMask /\ ev[s].copy # "none"

\* the name the call of worker s composed has the local time and the pid
HasTimePidName(s) ==
    /\ Len(ev[s].copyName) = 9
    /\ ev[s].copyName[8] \in Times /\ ev[s].copyName[9] = ev[s].pid

\* C16 as stated: a whitelisted symbol in the stack skips both blacklist
\* tests, the crash goes to the save step and the name with time and pid is
\* used.
C16_WhitelistOverrides ==
    \A s \in Slots :
        WhitelistMatched(s)
          => /\ SkippedBlacklists(s)
             /\ ev[s].copy # "none" => HasTimePidName(s)

\* C16, amended: the same, but in dry run with the verifier the name is that
\* of the original file.
C16_WhitelistOverridesButDryRunName ==
    \A s \in Slots :
        WhitelistMatched(s)
          => /\ SkippedBlacklists(s)
             /\ ev[s].copy # "none"
                  => IF hfuzz.flipRateZero /\ hfuzz.useVerifier
                     THEN ev[s].copyName = DryRunName(fuzzer[s].origFileName)
                     ELSE HasTimePidName(s)

\* C16 happens: a crash whose stack hash is blacklisted and whose stack has a
\* whitelisted symbol was saved under the name with time and pid although
\* saveUnique is set
C16_Witness ==
    \E s \in Slots :
        /\ Done(s) /\ WhitelistMatched(s) /\ ev[s].blHash /\ hfuzz.saveUnique
        /\ ev[s].copy = "ok" /\ HasTimePidName(s) /\ hfuzz.blCrashesCnt = 0

\* the requests the call under way has made so far, by position in the log
Requests == 1..Len(call.log)

\* C17 as stated: arch_ptraceDetach makes no request where kill(pid, 0) says
\* ESRCH; otherwise it takes the tasks in turn, and for each it sends
\* PTRACE_INTERRUPT, waits until the task is stopped and only then sends
\* PTRACE_DETACH.
C17_DetachAfterStop ==
    call.fn = "detach"
      => /\ call.kill = "ESRCH"
              => call.log = <<>> /\ call.listed = "none" /\ call.pc = "idle"
         /\ \A k \in Requests :
              /\ call.log[k].op = "PTRACE_INTERRUPT"
                   => \/ k = 1
                      \/ /\ call.log[k - 1].op = "PTRACE_DETACH"
                         /\ call.log[k - 1].tid # call.log[k].tid
              /\ call.log[k].op = "wait4"
                   => /\ k > 1
                      /\ call.log[k - 1].op \in {"PTRACE_INTERRUPT", "wait4"}
                      /\ call.log[k - 1].tid = call.log[k].tid
              /\ call.log[k].op = "PTRACE_DETACH"
                   => /\ k > 1
                      /\ call.log[k - 1].op = "wait4"
                      /\ call.log[k - 1].tid = call.log[k].tid
                      /\ call.log[k - 1].res = "stopped"

\* the wait4 calls of the call under way
WaitCount == Cardinality({k \in Requests : call.log[k].op = "wait4"})

\* detach of a process that is gone waits for nothing; on another the wait for
\* a task calls wait4 again after EINTR and after nothing else, and gives true
\* for a stopped status only
DetachWaits ==
    call.fn = "detach"
      => /\ call.kill = "ESRCH" => WaitCount = 0 /\ call.pc = "idle"
         /\ WaitCount <= call.count * (MaxEintr + 1)
         /\ \A k \in Requests :
              (call.log[k].op = "wait4" /\ k < Len(call.log))
                => IF call.log[k].res = "EINTR"
                   THEN /\ call.log[k + 1].op = "wait4"
                        /\ call.log[k + 1].tid = call.log[k].tid
                   ELSE call.log[k + 1].op = "PTRACE_DETACH"
         /\ call.pc = "dt_detach"
              => /\ call.log[Len(call.log)].op = "wait4"
                 /\ call.log[Len(call.log)].res # "EINTR"
                 /\ call.waitRet = "true" <=> call.log[Len(call.log)].res = "stopped"

\* C18: arch_ptraceDetach always returns; where the process is gone it has
\* called wait4 not once; otherwise it has called it a bounded number of
\* times, for arch_ptraceWaitForPidStop calls wait4 again only after EINTR and
\* returns after the first other result, true only for a stopped status.
C18_DetachReturns ==
    /\ [](DetachWaits)
    /\ (call.fn = "detach" /\ call.pc # "idle") ~> (call.pc = "idle")

\* C18 happens: detach of a process with every task returned after more calls
\* of wait4 than tasks
C18_Witness ==
    /\ call.fn = "detach" /\ call.pc = "idle" /\ call.ret = "void" /\ alive
    /\ call.count = MaxTids /\ call.i = call.count
    /\ WaitCount > call.count

\* the PTRACE_SEIZE requests of the call under way for task t
SeizesOf(t) ==
    {k \in Requests : call.log[k].op = "PTRACE_SEIZE" /\ call.log[k].tid = t}

\* the tasks arch_listThreads has stored
Enumerated == {ArrGet(call.tasks, i) : i \in 0..(call.count - 1)}

RECURSIVE XorOfPcs(_, _, _)
XorOfPcs(b, funcs, n) ==
    IF n = 0 THEN 0
    ELSE BitXor(util_hash(Last3(RegStr(b, funcs[n].pc))), XorOfPcs(b, funcs, n - 1))

\* that xor over the first min(len, numMajorFrames) frames of the stack hashed
XorOfMajorFrames ==
    XorOfPcs(app.build, app.funcs,
             IF Len(app.funcs) < app.numMajorFrames
             THEN Len(app.funcs) ELSE app.numMajorFrames)

\* C20 as stated: the hash is the xor, over the first min(len, numMajorFrames)
\* frames, of the hash of the last three hex digits of the pc, whatever
\* fuzzer->backtrace held; a change of the frames after the first
\* numMajorFrames does not change it.
C20_HashIsXorOfMajorFrames ==
    app.fn = "arch_hashCallstack"
      => /\ app.step >= 1 => app.backtrace = XorOfMajorFrames
         /\ app.step = 2 => app.backtrace2 = app.backtrace

\* C20, amended: with enableMasking and a stack of one frame the hash is that
\* xor with the single frame mask; a change of the frames after the first
\* numMajorFrames does not change the hash unless, with enableMasking, it makes
\* a stack of one frame out of a longer one or the other way round.
C20_HashIsXorOfMajorFramesOrMasked ==
    app.fn = "arch_hashCallstack"
      => /\ app.step >= 1
              => app.backtrace =
                   IF app.enableMasking /\ Len(app.funcs) = 1
                   THEN BitOr(XorOfMajorFrames, HF_SINGLE_FRAME_MASK)
                   ELSE XorOfMajorFrames
         /\ app.step = 2
              => \/ app.backtrace2 = app.backtrace
                 \/ /\ app.enableMasking
                    /\ (Len(app.funcs) = 1) # (Len(app.funcs2) = 1)

\* C20 happens: a stack of two frames and one of three with another second
\* frame, hashed with one major frame, have the same hash
C20_Witness ==
    /\ app.fn = "arch_hashCallstack" /\ app.step = 2 /\ app.numMajorFrames = 1
    /\ Len(app.funcs) = 2 /\ Len(app.funcs2) = 3 /\ app.funcs2[2] # app.funcs[2]
    /\ app.backtrace2 = app.backtrace /\ app.backtrace # 0

\* the single frame mask bit of a hash is set
HasSingleFrameMask(hash) == BitAnd(hash, HF_SINGLE_FRAME_MASK) = HF_SINGLE_FRAME_MASK

\* C21: a stack of exactly one frame hashed with enableMasking has the single
\* frame mask bit set in its hash; without enableMasking, or with another
\* number of frames, the mask is not or-ed in: the hash is the xor of the
\* frame hashes as it stands.
C21_SingleFrameMask ==
    (app.fn = "arch_hashCallstack" /\ app.step >= 1)
      => IF app.enableMasking /\ Len(app.funcs) = 1
         THEN HasSingleFrameMask(app.backtrace)
         ELSE app.backtrace = XorOfMajorFrames

\* C21 happens: a stack of one frame whose frame hash has not the mask bit was
\* hashed with enableMasking
C21_Witness ==
    /\ app.fn = "arch_hashCallstack" /\ app.step >= 1
    /\ app.enableMasking /\ Len(app.funcs) = 1
    /\ ~HasSingleFrameMask(XorOfMajorFrames) /\ HasSingleFrameMask(app.backtrace)

\* worker s, not a main worker, handles or handled an important signal stop
AnalyzeOnly(s) == IsSignalStop(s) /\ ev[s].handler = "AnalyzeData"

\* the stack the call of worker s hashes: what the unwinder found, or the pc
\* alone where it found nothing
StackOf(s) ==
    IF Len(ev[s].unwind) = 0 /\ ev[s].pc # 0
    THEN <<[pc |-> ev[s].pc]>> ELSE ev[s].unwind

\* the xor of the frame hashes of the first numMajorFrames frames of it
FingerprintOf(s) ==
    XorOfPcs(build, StackOf(s),
             IF Len(StackOf(s)) < hfuzz.numMajorFrames
             THEN Len(StackOf(s)) ELSE hfuzz.numMajorFrames)

\* the call of worker s changed nothing but, at most, fuzzer->backtrace
OnlyBacktraceWritten(s) ==
    /\ NothingCounted(s) /\ ~ev[s].subMask
    /\ ev[s].copy = "none" /\ ~ev[s].report
    /\ fuzzer[s].crashFileName = ev[s].pre.crashFileName
    /\ fuzzer[s].report = ev[s].pre.report
    /\ fuzzer[s].sanCovCrashesCnt = ev[s].pre.sanCov
    /\ pos[s] = "idle"

\* C22 as stated: an important signal stop of a worker that is not a main
\* worker changes nothing but fuzzer->backtrace, which becomes the fingerprint
\* of the unwound stack, or of the pc alone where there are no frames.
C22_AnalyzeOnlyWritesFingerprint ==
    \A s \in Slots :
        AnalyzeOnly(s)
          => /\ OnlyBacktraceWritten(s)
             /\ fuzzer[s].backtrace = FingerprintOf(s)

\* C22, amended: fuzzer->backtrace stays as it was where the registers cannot
\* be read or there is neither a frame nor a pc; on ARM the hash of the link
\* register, where it can be read, is xor-ed into the fingerprint of a stack
\* of one frame.
C22_AnalyzeOnlyWritesBacktrace ==
    \A s \in Slots :
        AnalyzeOnly(s)
          => /\ OnlyBacktraceWritten(s)
             /\ fuzzer[s].backtrace =
                  IF ev[s].regFail \/ Len(StackOf(s)) = 0
                  THEN ev[s].pre.backtrace
                  ELSE IF build.cpu = "arm" /\ Len(StackOf(s)) = 1 /\ ev[s].lrOk
                  THEN BitXor(FingerprintOf(s),
                              util_hash(Last3(RegStr(build, ev[s].lr))))
                  ELSE FingerprintOf(s)

\* C22 happens: the unwinder found nothing and the hash of the pc alone
\* replaced the hash of an earlier stop
C22_Witness ==
    \E s \in Slots :
        /\ AnalyzeOnly(s) /\ Done(s) /\ ev[s].unwindCnt = 0 /\ ev[s].pc # 0
        /\ build.cpu # "arm" /\ ev[s].prev.handler = "AnalyzeData"
        /\ fuzzer[s].backtrace = FingerprintOf(s)
        /\ fuzzer[s].backtrace # ev[s].pre.backtrace

\* the status worker s was handed is one the dispatcher has nothing to do
\* for: continued, exited with an exit code of no sanitizer, or signaled
IgnoredStatus(s) ==
    \/ ev[s].kind \in {"continued", "signaled"}
    \/ ev[s].kind = "exited" /\ ev[s].exitCode \notin SanitizerExitCodes

\* C23: a status that is continued, exited with an exit code of no sanitizer,
\* or signaled leaves the slot, the counters and the work directory as they
\* were and no ptrace request is made.
C23_IgnoredStatusChangesNothing ==
    \A s \in Slots :
        IgnoredStatus(s)
          => /\ ev[s].reqs = <<>> /\ ev[s].handler = "none" /\ pos[s] = "idle"
             /\ NothingCounted(s) /\ ~ev[s].subMask
             /\ ev[s].copy = "none" /\ ~ev[s].report
             /\ fuzzer[s].crashFileName = ev[s].pre.crashFileName
             /\ fuzzer[s].backtrace = ev[s].pre.backtrace
             /\ fuzzer[s].report = ev[s].pre.report
             /\ fuzzer[s].sanCovCrashesCnt = ev[s].pre.sanCov

\* C23 happens: after a crash was saved the tracee exited with an exit code
\* of no sanitizer and the slot kept the name of the crash file
C23_Witness ==
    \E s \in Slots :
        /\ Done(s) /\ ev[s].kind = "exited" /\ ev[s].exitCode = "EXIT_FAILURE"
        /\ ev[s].prev.copy = "ok" /\ fuzzer[s].crashFileName # EmptyStr
        /\ ev[s].reqs = <<>> /\ hfuzz.crashesCnt = 1

\* C24: the instruction string arch_getInstrStr leaves has no slash, no
\* backslash, no whitespace and no unprintable character (each is '_' or a
\* printable character other than those), for every outcome of the register
\* requests, the memory read and the disassembler; it is "[UNKNOWN]" when no
\* PC could be read and "[NOT_MMAPED]" when the PC was read and the memory
\* read returned 0 bytes.
InstrApplied == app.fn = "arch_getInstrStr" /\ app.step = 1

RegisterReadFailed ==
    arch_getPC(app.build, app.regset, app.getregs).sz = 0

MemoryReadEmpty ==
    arch_getProcMem(app.build, MAX_INSTR_SZ(app.build), app.readv, app.peeksOk,
                    app.libc) = 0

C24_InstrSanitized ==
    InstrApplied =>
      /\ \A x \in 1..Len(app.instr) :
           \/ app.instr[x] = "_"
           \/ /\ app.instr[x] \notin NonPrintChars
              /\ app.instr[x] \notin SpaceChars
              /\ app.instr[x] \notin {"/", "\\"}
      /\ RegisterReadFailed => app.instr = Str_UNKNOWN
      /\ (~RegisterReadFailed /\ MemoryReadEmpty) => app.instr = Str_NOT_MMAPED

\* a disassembly of a slash and a letter came out as "_a"
C24_Witness ==
    /\ InstrApplied
    /\ ~RegisterReadFailed /\ ~MemoryReadEmpty
    /\ app.disasm.ok /\ app.disasm.text = <<"/", "a">>
    /\ app.instr = <<"_", "a">>

\* C25: once the header with the crash address was found, a line that holds
\* the address and begins with READ sets op to READ, one that begins with
\* WRITE sets op to WRITE, and one that begins with neither leaves op as it
\* was. Stated for logs without empty lines in which exactly one line after
\* the header holds the address and has 10 characters or more.
AsanApplied == app.fn = "arch_parseAsanReport" /\ app.step = 1

\* the index of the header line of the pid, 0 when there is none
HeaderAt ==
    LET hs == { i \in 1..Len(app.log.lines) :
                  app.log.lines[i].kind = "hdr" /\ app.log.lines[i].pid = app.pid }
    IN  IF hs = {} THEN 0 ELSE CHOOSE i \in hs : \A j \in hs : i <= j

\* the lines after the header with the address that hold the address
AddrLines ==
    IF HeaderAt = 0 \/ ~app.log.lines[HeaderAt].hasAddr THEN {}
    ELSE { i \in (HeaderAt + 1)..Len(app.log.lines) :
             app.log.lines[i].findsAddr /\ ~app.log.lines[i].short }

C25_OpFollowsLine ==
    (/\ AsanApplied /\ app.log.exists /\ app.out.returned
     /\ \A i \in 1..Len(app.log.lines) : app.log.lines[i].kind # "blank"
     /\ Cardinality(AddrLines) = 1)
    => LET l == app.log.lines[CHOOSE i \in AddrLines : TRUE]
       IN  /\ l.startsRead => app.out.res.op = "READ"
           /\ l.startsWrite => app.out.res.op = "WRITE"
           /\ (~l.startsRead /\ ~l.startsWrite) => app.out.res.op = "UNKNOWN"

\* C30: the parser returns -1 exactly when the log cannot be opened and then
\* unlinks nothing; otherwise it returns the number of frames captured, from 0
\* to _HF_MAX_FUNCS, each frame taken from a line after the header, the k-th
\* from a line labelled #k in the order of the lines, and the log is gone
\* afterwards.
FramesInOrder ==
    LET lines == app.log.lines
        funcs == app.out.res.funcs
    IN  \E f \in [1..Len(funcs) -> 1..Len(lines)] :
          \A k \in 1..Len(funcs) :
            /\ HeaderAt # 0 /\ f[k] > HeaderAt
            /\ k > 1 => f[k] > f[k - 1]
            /\ lines[f[k]].kind = "frame" /\ lines[f[k]].idx = k - 1
            /\ funcs[k].pc = lines[f[k]].pc

C30_ParserResult ==
    AsanApplied =>
      /\ app.out.returned
      /\ (app.out.res.ret = -1) <=> ~app.log.exists
      /\ ~app.log.exists => ~app.out.unlinked
      /\ app.log.exists =>
           /\ app.out.res.ret = Len(app.out.res.funcs)
           /\ app.out.res.ret \in 0..HF_MAX_FUNCS
           /\ FramesInOrder
           /\ app.out.unlinked

\* C26: when the vectored read does not return exactly len bytes, the reader
\* peeks floor(len/W) words in order and stops at the first peek that fails:
\* it returns W times the number of consecutive peeks that succeeded, which is
\* floor(len/W)*W when all succeed, and 0 only when the first peek fails.
ProcMemApplied == app.fn = "arch_getProcMem" /\ app.step = 1

\* the words asked for, and how many of them the tracee gives in a row
WordsAsked == app.len \div SizeofLong(app.build)
WordsGiven == IF app.peeksOk < WordsAsked THEN app.peeksOk ELSE WordsAsked

C26_PeekFallbackCount ==
    (ProcMemApplied /\ app.readv # app.len) =>
      /\ app.out.ret = SizeofLong(app.build) * WordsGiven
      /\ (app.out.ret = 0 /\ WordsAsked > 0) => app.peeksOk = 0

\* C27: for every outcome of the vectored read and of the peeks, the count
\* returned is at most len and at most the bytes read from the tracee, and no
\* byte of buf at or after the count was written.
C27_CountBoundsBuffer ==
    ProcMemApplied =>
      /\ app.out.ret <= app.len
      /\ app.out.ret <= app.out.read
      /\ app.out.written <= app.out.ret

\* worker s, a main worker on ARM with saveUnique, hashed a crash for which
\* the unwinder found no frame, the pc is not zero and the link register was
\* read and is not zero
ArmSingleFrame(s) ==
    /\ IsSignalStop(s) /\ ev[s].handler = "SaveData" /\ ev[s].hashed
    /\ build.cpu = "arm" /\ hfuzz.saveUnique
    /\ Len(ev[s].unwind) = 0 /\ ev[s].pc # 0
    /\ ev[s].lrOk /\ ev[s].lr # 0

\* the hash of the last three characters of a register as it is printed
RegHash(reg) == util_hash(Last3(RegStr(build, reg)))

\* C28: for such a crash the slot's backtrace has its top bit set and is
\* (H(pc) xor H(lr)) or-ed with the single-frame mask, and a file that is
\* saved for it (outside dry run, without a whitelisted symbol) has the unique
\* name.
C28_ArmSingleFrameHash ==
    \A s \in Slots :
        ArmSingleFrame(s) =>
          /\ fuzzer[s].backtrace =
               BitOr(BitXor(RegHash(ev[s].pc), RegHash(ev[s].lr)),
                     HF_SINGLE_FRAME_MASK)
          /\ BitAnd(fuzzer[s].backtrace, HF_SINGLE_FRAME_MASK) = HF_SINGLE_FRAME_MASK
          /\ (/\ ev[s].copy = "ok" /\ ~ev[s].whitelisted
              /\ ~(hfuzz.flipRateZero /\ hfuzz.useVerifier))
               => Len(ev[s].copyName) = 7

\* worker s, a main worker, hashed a crash for which the unwinder found no
\* frame
UnwindEmpty(s) ==
    /\ IsSignalStop(s) /\ ev[s].handler = "SaveData" /\ ev[s].hashed
    /\ Len(ev[s].unwind) = 0

\* the hash of the stack of one frame at the pc of worker s: masked where
\* saveUnique is set, and on ARM then xor-ed with the hash of the link register
\* (of 0 where it could not be read)
PcOnlyHash(s) ==
    LET masked == IF hfuzz.saveUnique
                  THEN BitOr(RegHash(ev[s].pc), HF_SINGLE_FRAME_MASK)
                  ELSE RegHash(ev[s].pc)
    IN  IF hfuzz.saveUnique /\ build.cpu = "arm"
        THEN BitXor(masked, RegHash(IF ev[s].lrOk THEN ev[s].lr ELSE 0))
        ELSE masked

\* the lines of the report of worker s after "STACK:"
ReportedFrames(s) == SubSeq(fuzzer[s].report, 9, Len(fuzzer[s].report))

\* with no frame but a pc, the stack hashed and reported is the pc alone
PcOnlyStack(s) ==
    ev[s].pc # 0 =>
      /\ StackOf(s) = <<[pc |-> ev[s].pc]>>
      /\ fuzzer[s].backtrace = PcOnlyHash(s)
      /\ ev[s].report => ReportedFrames(s) = << <<"FRAME", ev[s].pc, "", 0>> >>

\* C29 as stated: with no frame and pc zero the hash is 0 and what is saved
\* has the name with time and pid.
C29_UnwindEmpty ==
    \A s \in Slots :
        UnwindEmpty(s) =>
          /\ PcOnlyStack(s)
          /\ ev[s].pc = 0 =>
               /\ fuzzer[s].backtrace = 0
               /\ ev[s].copy # "none" => HasTimePidName(s)

\* C29, amended: the same, but in dry run with the verifier the name is that
\* of the original file; with saveUnique set in the configuration the name
\* still carries time and pid, and nothing is reported as a frame.
C29_UnwindEmptyButDryRunName ==
    \A s \in Slots :
        UnwindEmpty(s) =>
          /\ PcOnlyStack(s)
          /\ ev[s].pc = 0 =>
               /\ fuzzer[s].backtrace = 0
               /\ ev[s].report => ReportedFrames(s) = <<>>
               /\ ev[s].copy # "none"
                    => IF hfuzz.flipRateZero /\ hfuzz.useVerifier
                       THEN ev[s].copyName = DryRunName(fuzzer[s].origFileName)
                       ELSE HasTimePidName(s)

\* C29 happens: with saveUnique set, a crash without a frame and with pc zero
\* was saved under the name with time and pid, its hash 0
C29_Witness ==
    \E s \in Slots :
        /\ Done(s) /\ UnwindEmpty(s) /\ ev[s].pc = 0 /\ hfuzz.saveUnique
        /\ ev[s].copy = "ok" /\ HasTimePidName(s) /\ fuzzer[s].backtrace = 0

\* worker s handles, or handled last, a sanitizer exit: the exited status or
\* the EXIT trace event of a tracee with the exit code of a sanitizer
IsSanitizerExitEvent(s) == ev[s].handler = "ExitSaveData"

\* C31: a sanitizer exit handled while fuzzer->crashFileName is set changes
\* nothing: no counter, no dynFileIterExpire bit, not fuzzer->backtrace, no
\* crash file, no report, and the sanitizer log is not looked up; and of two
\* sanitizer exits a worker handles in a row at most one saves a file.
C31_FirstHitOnly ==
    \A s \in Slots :
        IsSanitizerExitEvent(s) =>
          /\ ev[s].pre.crashFileName # EmptyStr =>
               /\ NothingCounted(s)
               /\ fuzzer[s].backtrace = ev[s].pre.backtrace
               /\ ev[s].log = "none"
               /\ Done(s)
          /\ ev[s].prev.handler = "ExitSaveData" =>
               ~(ev[s].prev.copy = "ok" /\ ev[s].copy = "ok")

\* C31 happens: a sanitizer exit saved a file and the exited status handled
\* next returned at the first test
C31_Witness ==
    \E s \in Slots :
        /\ Done(s) /\ IsSanitizerExitEvent(s) /\ ev[s].kind = "exited"
        /\ ev[s].prev.handler = "ExitSaveData" /\ ev[s].prev.copy = "ok"
        /\ ev[s].pre.crashFileName # EmptyStr
        /\ ev[s].ret = "firstHitOnly" /\ Cardinality(files) = 1

\* the counters of honggfuzz_t: what was blacklisted and what was saved is
\* no more than what was counted as a crash
CountersOrdered ==
    hfuzz.blCrashesCnt + hfuzz.uniqueCrashesCnt <= hfuzz.crashesCnt

\* the handling of one status increments crashesCnt at most once, and at most
\* one of blCrashesCnt and uniqueCrashesCnt, once, and only with crashesCnt
OneOfTwoCounted ==
    \A s \in Slots :
        /\ ev[s].incCrashes <= 1
        /\ ev[s].incBl + ev[s].incUnique <= 1
        /\ ev[s].incBl + ev[s].incUnique = 1 => ev[s].incCrashes = 1

\* a step that increments blCrashesCnt or uniqueCrashesCnt for worker s is
\* taken after the step that incremented crashesCnt for the same status
CrashCountedBefore ==
    \A s \in Slots :
        (ev'[s].incBl > ev[s].incBl \/ ev'[s].incUnique > ev[s].incUnique)
          => /\ ev[s].incCrashes = 1
             /\ ev'[s].pre = ev[s].pre /\ ev'[s].kind = ev[s].kind

\* C32: in every state blCrashesCnt + uniqueCrashesCnt <= crashesCnt; every
\* increment of one of the two comes after exactly one increment of crashesCnt
\* in the handling of the same status, which increments at most one of them.
C32_CountersOrdered ==
    [](CountersOrdered /\ OneOfTwoCounted) /\ [][CrashCountedBefore]_vars

\* C32 happens: two workers at once, one crash was saved and one is counted
\* but not saved yet
C32_Witness ==
    \E s, t \in Slots :
        /\ s # t /\ profile = "par"
        /\ ev[s].incUnique = 1 /\ ev[t].incCrashes = 1 /\ ev[t].incUnique = 0
        /\ pos[t] # "idle"
        /\ hfuzz.crashesCnt = 2 /\ hfuzz.uniqueCrashesCnt = 1

\* worker s handles, or handled last, a sanitizer exit that found
\* fuzzer->crashFileName empty
FirstSanitizerExit(s) ==
    IsSanitizerExitEvent(s) /\ ev[s].pre.crashFileName = EmptyStr

\* C33: a sanitizer exit handled while fuzzer->crashFileName is empty adds one
\* to crashesCnt and clears the two high bits of dynFileIterExpire before the
\* log is looked up; where the ASan log is missing nothing is saved and the
\* file name stays empty, so the exit of a second thread is counted again.
C33_SanitizerExitCounted ==
    \A s \in Slots :
        FirstSanitizerExit(s) =>
          /\ ev[s].incCrashes = 1
          /\ hfuzz.crashesCnt >= ev[s].pre.crashesCnt + 1
          /\ profile # "par" => hfuzz.crashesCnt = ev[s].pre.crashesCnt + 1
          /\ (ev[s].log # "none" \/ Done(s)) => ev[s].subMask
          /\ ev[s].subMask =>
               hfuzz.dynFileIterExpire
                 = BitAnd(hfuzz.dynFileIterExpire, HF_DYNFILE_SUB_MASK)
          /\ ev[s].log = "missing" =>
               /\ Done(s) /\ ev[s].copy = "none" /\ ev[s].incUnique = 0
               /\ ~ev[s].report /\ fuzzer[s].crashFileName = EmptyStr
               /\ (ev[s].prev.handler = "ExitSaveData" /\ ev[s].prev.ret = "noReport")
                    => ev[s].tot.crashesCnt >= 2

\* C33 happens: two threads of a tracee exited with the ASan exit code, no log
\* was found for either, crashesCnt is 2 and nothing was saved
C33_Witness ==
    \E s \in Slots :
        /\ Done(s) /\ FirstSanitizerExit(s) /\ ev[s].log = "missing"
        /\ ev[s].prev.handler = "ExitSaveData" /\ ev[s].prev.ret = "noReport"
        /\ hfuzz.crashesCnt = 2 /\ hfuzz.uniqueCrashesCnt = 0 /\ files = {}

\* worker s, a main worker with saveUnique set in the configuration, hashed a
\* crash whose stack has one frame, and uniqueness was switched off for it:
\* the build is not for ARM, or the link register was not read or is zero
OneFrameNotUnique(s) ==
    /\ IsSignalStop(s) /\ ev[s].handler = "SaveData" /\ ev[s].hashed
    /\ hfuzz.saveUnique /\ Len(StackOf(s)) = 1
    /\ build.cpu = "arm" => (~ev[s].lrOk \/ ev[s].lr = 0)

\* the hash of the one frame with the single-frame mask
MaskedFrameHash(s) == BitOr(RegHash(StackOf(s)[1].pc), HF_SINGLE_FRAME_MASK)

\* the single-frame mask is set in the hash of worker s
KeepsMask(s) ==
    BitAnd(fuzzer[s].backtrace, HF_SINGLE_FRAME_MASK) = HF_SINGLE_FRAME_MASK

\* hfuzz->saveUnique is not written
SaveUniqueKept == hfuzz'.saveUnique = hfuzz.saveUnique

ListApplied == app.fn = "arch_listThreads" /\ app.step = 1

\* the entries of the directory whose name converts to a task id
NumericEntries(dir) ==
    Cardinality({k \in 1..Len(dir.entries) : strtol(dir.entries[k]) # 0})

\* C35: for an array of thrSz + 1 entries and a directory of any number of
\* entries, arch_listThreads writes at no index outside 0..thrSz, the
\* terminating zero included, and stores at most thrSz task ids.
C35_ListThreadsInBounds ==
    ListApplied =>
      /\ ~app.out.tasks.oob
      /\ app.out.count <= app.thrSz

\* what does hold: at most thrSz task ids are stored, each inside the array;
\* the zero written after the loop falls outside the array exactly where
\* thrSz task ids were stored
C35_StoredInBounds ==
    ListApplied =>
      /\ app.out.count <= app.thrSz
      /\ Len(app.out.tasks.cells) <= app.thrSz + 1
      /\ app.out.tasks.oob <=> app.out.count = app.thrSz

\* the directory had at least thrSz task ids and all of them were read
C35_FullArray ==
    /\ ListApplied /\ app.dir.open
    /\ NumericEntries(app.dir) > app.thrSz
    /\ app.out.count = app.thrSz /\ app.out.ret

====
